---- MODULE Spec2Model ----
(***************************************************************************)
(* A model of the PostgreSQL COPY codec: the binary row encoder            *)
(* (pgcopy/src/to/binary.rs), the narrowing casts (pgcopy/src/cast.rs) and *)
(* the scalar and list literal codecs of repr/src/strconv.rs.              *)
(*                                                                         *)
(* Bytes are the integers 0..255, byte vectors are sequences of bytes.     *)
(* Text is a sequence of one-character strings.                            *)
(***************************************************************************)
EXTENDS Integers, Sequences, FiniteSets, TLC

(***************************************************************************)
(* Bounds of the model.                                                    *)
(***************************************************************************)
\* Largest schema arity whose rows are enumerated in full.
MaxArity == 3
\* Largest number of encode_row calls on one encoder.
MaxRows == 2
\* Largest number of elements of a list of integers or strings.
MaxListLen == 2
\* Largest number of characters in all strings of a list together.
MaxChars == 2
\* Deepest nesting of lists, and the largest number of elements of a nested list.
MaxDepth == 3
MaxNestLen == 2

VARIABLES
    \* ---- binary row encoder (CopyToBinary) and its caller
    st,            \* "Unbuilt", "Open", "Finished", "Failed" (new returned Err), "Panicked"
    desc,          \* the RelationDesc handed to new: its column types
    field_count,   \* CopyToBinary.field_count
    field_types,   \* CopyToBinary.field_types
    field_pgtypes, \* CopyToBinary.field_pgtypes
    scratch_buf,   \* CopyToBinary.scratch_buf
    out_buf,       \* CopyToBinary.out_buf
    err,           \* the Err a call returned to the caller, or None
    emitted,       \* caller: every vector returned by flush and finish, concatenated in call order
    ret,           \* caller: the vector returned by the last flush or finish
    frames,        \* caller: the bytes each encode_row call appended, in call order
    last,          \* caller: where the last encode_row call wrote in the logical stream
    finishes,      \* caller: number of finish calls made
    \* ---- list codec (format_list, parse_list) and its caller
    lpc,           \* "input", "formatted", "parsed"
    lty,           \* the type of the list: [base, depth]
    linput,        \* the list handed to format_list, or the elements the caller wrote
    ltail,         \* what the caller wrote after the last element it wrote
    sink0,         \* the contents of the sink before format_list
    lbuf,          \* the sink after format_list
    lnest,         \* the Nestable that format_list returned
    lres,          \* the Result that parse_list returned
    \* ---- scalar codecs (format_*, parse_*) and their caller
    spc,           \* "value", "text", "parsed"
    sfn,           \* the scalar type: "bool", "int32", "int64", "bytes"
    sval,          \* <<v>> for the value v handed to the formatter, <<>> when there is none
    stext,         \* the text the formatter wrote, or the text the caller supplied
    sres,          \* the Result that the parser or the cast returned
    \* ---- format configuration (config.rs, config/csv.rs) and its caller
    copy_config,   \* the configuration value the caller built: [kind, ...]
    \* ---- date and time parsers and the datetime routines they call
    dparts,        \* what the routines of the datetime module return for the text
    \* ---- escape_list_elem and format_list, statement by statement
    walk,          \* the locals of the call in progress: [kind, pc, elem, ri, wi, ...]
    \* ---- the zero-stripping loop of format_nanos
    nloop,         \* the locals of the call in progress: [kind, pc, nanos, width, buf, ...]
    \* ---- parse_list, loop iteration by loop iteration
    plist          \* the locals of the call in progress: [kind, pc, buf, pos, elems, ...]

encVars == <<st, desc, field_count, field_types, field_pgtypes, scratch_buf,
             out_buf, err, emitted, ret, frames, last, finishes>>

listVars == <<lpc, lty, linput, ltail, sink0, lbuf, lnest, lres>>

scalarVars == <<spc, sfn, sval, stext, sres>>

auxVars == <<copy_config, dparts, walk, nloop, plist>>

vars == <<encVars, listVars, scalarVars, auxVars>>

None == "None"

(***************************************************************************)
(* Helpers on sequences and integers.                                      *)
(***************************************************************************)
Min(a, b) == IF a <= b THEN a ELSE b

RECURSIVE Concat(_)
\* The concatenation of a sequence of sequences.
Concat(ss) == IF ss = <<>> THEN <<>> ELSE Head(ss) \o Concat(Tail(ss))

\* i16::to_be_bytes: the two's-complement big-endian bytes of a 16-bit integer.
i16_to_be_bytes(v) ==
    LET u == v % 65536 IN <<u \div 256, u % 256>>

\* i32::to_be_bytes: the two's-complement big-endian bytes of a 32-bit integer.
i32_to_be_bytes(v) ==
    <<(v \div 16777216) % 256, (v \div 65536) % 256, (v \div 256) % 256, v % 256>>

(***************************************************************************)
(* pgcopy/src/cast.rs                                                      *)
(***************************************************************************)
\* A narrowing that lets every 16-bit pattern through, as a cast to u16 would.
i16_wide(cx, v) ==
    IF v \in -32768..65535
    THEN [ok |-> TRUE, val |-> v, msg |-> None]
    ELSE [ok |-> FALSE, val |-> 0, msg |-> cx \o " does not fit into an i16"]

\* cast::i16(cx, v): i16::try_from(v) succeeds exactly on the range of an i16.
i16(cx, v) ==
    IF v \in -32768..32767
    THEN [ok |-> TRUE, val |-> v, msg |-> None]
    ELSE [ok |-> FALSE, val |-> 0, msg |-> cx \o " does not fit into an i16"]

\* The value of a 64-bit pattern, given as four 16-bit limbs (most significant
\* first), when its upper 32 bits only repeat the sign of the lower 32.
low_i32(l) ==
    IF l[3] >= 32768 THEN (l[3] - 65536) * 65536 + l[4] ELSE l[3] * 65536 + l[4]

\* A narrowing that keeps the low 32 bits, as the cast `v as i32` would.
i32_wrapping(cx, v) == [ok |-> TRUE, val |-> low_i32(v), msg |-> None]

\* cast::i32(cx, v) for a 64-bit v: i32::try_from(v) succeeds exactly when the
\* upper 33 bits of v are all equal.
i32(cx, v) ==
    IF \/ v[1] = 0 /\ v[2] = 0 /\ v[3] < 32768
       \/ v[1] = 65535 /\ v[2] = 65535 /\ v[3] >= 32768
    THEN [ok |-> TRUE, val |-> low_i32(v), msg |-> None]
    ELSE [ok |-> FALSE, val |-> 0, msg |-> cx \o " does not fit into an i32"]

(***************************************************************************)
(* pgcopy/src/to/binary.rs                                                 *)
(***************************************************************************)
\* A NULL marker of length 0 instead of length -1.
NULL_ENCODING_zero == i32_to_be_bytes(0)

\* const NULL_ENCODING: [u8; 4] = (-1i32).to_be_bytes()
NULL_ENCODING == i32_to_be_bytes(-1)

\* The column types of the model's schemas and the datums of each type.
ColumnTypes == {"int4", "text"}

DatumsOf(ty) == IF ty = "int4" THEN {"NULL", "i42"} ELSE {"NULL", "tx"}

Datums == UNION {DatumsOf(ty) : ty \in ColumnTypes}

\* mz_pgrepr::Type::from(&ty.scalar_type)
PgTypeOf(ty) == IF ty = "int4" THEN "Int4" ELSE "Text"

\* mz_pgrepr::Value::from_datum: None for the null datum.
from_datum(datum, ty) == IF datum = "NULL" THEN None ELSE datum

\* mz_pgrepr::Value::encode_binary: the payload bytes of a present value.
encode_binary(value) == IF value = "i42" THEN <<0, 0, 0, 42>> ELSE <<120>>

\* The 11-byte signature and the 19-byte header written by new.
Signature == <<80, 71, 67, 79, 80, 89, 10, 255, 13, 10, 0>>

Header == Signature \o <<0, 0, 0, 0>> \o <<0, 0, 0, 0>>

\* new returned Err: there is no encoder.
NoEncoder ==
    /\ field_count' = 0
    /\ field_types' = <<>>
    /\ field_pgtypes' = <<>>
    /\ scratch_buf' = <<>>
    /\ out_buf' = <<>>

\* CopyToBinary::new(desc)
new ==
    /\ st = "Unbuilt"
    /\ LET r == i16("field count", Len(desc)) IN
       IF r.ok
       THEN /\ st' = "Open"
            /\ field_count' = r.val
            /\ field_types' = desc
            /\ field_pgtypes' = [i \in 1..Len(desc) |-> PgTypeOf(desc[i])]
            /\ scratch_buf' = <<>>
            /\ out_buf' = Header
            /\ err' = None
       ELSE /\ st' = "Failed"
            /\ NoEncoder
            /\ err' = r.msg
    /\ UNCHANGED <<desc, emitted, ret, frames, last, finishes>>
    /\ UNCHANGED <<listVars, scalarVars, auxVars>>

RECURSIVE encode_fields(_, _, _, _, _, _)
\* The loop of encode_row over row.iter().zip_eq(field_types).zip_eq(field_pgtypes),
\* from column i on: zip_eq panics when one side ends before the other.  marks
\* collects the length of out_buf after each column.
encode_fields(row, types, i, out, scratch, marks) ==
    IF i > Len(row) /\ i > Len(types)
    THEN [panic |-> FALSE, out |-> out, scratch |-> scratch, marks |-> marks]
    ELSE IF i > Len(row) \/ i > Len(types)
    THEN [panic |-> TRUE, out |-> out, scratch |-> scratch, marks |-> marks]
    ELSE LET value == from_datum(row[i], types[i]) IN
         IF value = None
         THEN encode_fields(row, types, i + 1, out \o NULL_ENCODING, scratch,
                            Append(marks, Len(out) + Len(NULL_ENCODING)))
         ELSE \* scratch_buf.clear(); value.encode_binary(ty, buf): buf is read
              \* as the scratch buffer just cleared, the only BytesMut of the
              \* encoder; out_buf is not extended in this arm.
              encode_fields(row, types, i + 1, out, encode_binary(value),
                            Append(marks, Len(out)))

\* CopyToBinary::encode_row(row)
encode_row(row) ==
    /\ st = "Open"
    /\ Len(frames) < MaxRows
    /\ LET start == out_buf \o i16_to_be_bytes(field_count)
           r     == encode_fields(row, field_types, 1, start, scratch_buf, <<>>)
           base  == Len(emitted)
       IN /\ out_buf' = r.out
          /\ scratch_buf' = r.scratch
          /\ st' = IF r.panic THEN "Panicked" ELSE "Open"
          /\ last' = [row   |-> row,
                      from  |-> base + Len(out_buf),
                      marks |-> [k \in 1..Len(r.marks) |-> base + r.marks[k]],
                      to    |-> base + Len(r.out)]
          /\ frames' = Append(frames, SubSeq(r.out, Len(out_buf) + 1, Len(r.out)))
    /\ UNCHANGED <<desc, field_count, field_types, field_pgtypes, err, emitted,
                   ret, finishes>>
    /\ UNCHANGED <<listVars, scalarVars, auxVars>>

\* A flush that returns the buffer and keeps it.
flush_keep ==
    /\ st = "Open"
    /\ ret' = out_buf
    /\ emitted' = emitted \o out_buf
    /\ out_buf' = out_buf
    /\ UNCHANGED <<st, desc, field_count, field_types, field_pgtypes, scratch_buf,
                   err, frames, last, finishes>>
    /\ UNCHANGED <<listVars, scalarVars, auxVars>>

\* CopyToBinary::flush(): mem::take(&mut self.out_buf)
flush ==
    /\ st = "Open"
    /\ ret' = out_buf
    /\ emitted' = emitted \o out_buf
    /\ out_buf' = <<>>
    /\ UNCHANGED <<st, desc, field_count, field_types, field_pgtypes, scratch_buf,
                   err, frames, last, finishes>>
    /\ UNCHANGED <<listVars, scalarVars, auxVars>>

\* A finish that takes &mut self and gives the buffer back for further calls.
finish_open ==
    /\ st = "Open"
    /\ finishes < 2
    /\ LET trailer == -1
           final   == out_buf \o i16_to_be_bytes(trailer)
       IN /\ ret' = final
          /\ emitted' = emitted \o final
          /\ out_buf' = final
    /\ st' = "Open"
    /\ finishes' = finishes + 1
    /\ UNCHANGED <<desc, field_count, field_types, field_pgtypes, scratch_buf,
                   err, frames, last>>
    /\ UNCHANGED <<listVars, scalarVars, auxVars>>

\* CopyToBinary::finish(self): consumes the encoder.
finish ==
    /\ st = "Open"
    /\ LET trailer == -1
           final   == out_buf \o i16_to_be_bytes(trailer)
       IN /\ ret' = final
          /\ emitted' = emitted \o final
          /\ out_buf' = <<>>
    /\ st' = "Finished"
    /\ finishes' = finishes + 1
    /\ UNCHANGED <<desc, field_count, field_types, field_pgtypes, scratch_buf,
                   err, frames, last>>
    /\ UNCHANGED <<listVars, scalarVars, auxVars>>

(***************************************************************************)
(* The encoder's callers: schemas and rows.                                *)
(***************************************************************************)
\* Arities around the limit of the 16-bit field count.
LargeArities == {32767, 32768, 40000}

Schemas ==
    UNION {[1..n -> ColumnTypes] : n \in 0..MaxArity}
    \cup {[i \in 1..n |-> "int4"] : n \in LargeArities}

\* The rows a caller may hand to an encoder over types: each datum is of its
\* column's type; the number of datums need not be the arity.
RowsFor(types) ==
    {r \in UNION {[1..n -> Datums] : n \in 0..MaxArity} :
        \A i \in 1..Min(Len(r), Len(types)) : r[i] \in DatumsOf(types[i])}

NoLast == [row |-> <<>>, from |-> 0, marks |-> <<>>, to |-> 0]

\* No encoder has been asked for.
EncIdle(schemas) ==
    /\ st = "Unbuilt"
    /\ desc \in schemas
    /\ field_count = 0
    /\ field_types = <<>>
    /\ field_pgtypes = <<>>
    /\ scratch_buf = <<>>
    /\ out_buf = <<>>
    /\ err = None
    /\ emitted = <<>>
    /\ ret = <<>>
    /\ frames = <<>>
    /\ last = NoLast
    /\ finishes = 0

\* No list has been handed to the list codec.
ListIdle ==
    /\ lpc = "idle"
    /\ lty = [base |-> "int32", depth |-> 1]
    /\ linput = <<>>
    /\ ltail = <<>>
    /\ sink0 = <<>>
    /\ lbuf = <<>>
    /\ lnest = None
    /\ lres = None

\* No scalar has been handed to the scalar codecs.
ScalarIdle ==
    /\ spc = "idle"
    /\ sfn = None
    /\ sval = <<>>
    /\ stext = <<>>
    /\ sres = None

\* No configuration has been built.
NoConfig == [kind |-> "None"]

\* The datetime routines have not been asked anything.
NoParts == [kind |-> "None"]

\* No call is in progress.
NoCall == [kind |-> "None"]

\* Everything but the part named by part is as constructed.
IdleBut(part) ==
    /\ IF part = "config" THEN TRUE ELSE copy_config = NoConfig
    /\ IF part = "date" THEN TRUE ELSE dparts = NoParts
    /\ IF part = "walk" THEN TRUE ELSE walk = NoCall
    /\ IF part = "nanos" THEN TRUE ELSE nloop = NoCall
    /\ IF part = "plist" THEN TRUE ELSE plist = NoCall

AuxIdle == IdleBut("")

InitEnc == EncIdle(Schemas) /\ ListIdle /\ ScalarIdle /\ AuxIdle

NextEnc ==
    \/ new
    \/ \E row \in RowsFor(field_types) : encode_row(row)
    \/ flush
    \/ finish

SpecEnc == InitEnc /\ [][NextEnc]_vars

Spec == SpecEnc

(***************************************************************************)
(* Properties of the binary row encoder, checked under SpecEnc.            *)
(***************************************************************************)
\* The logical stream: what the caller has received so far, then what the
\* encoder still holds.
Stream == emitted \o out_buf

Trailer == <<255, 255>>

\* C1: the vectors returned by flush and finish, concatenated in call order,
\* are the 19-byte header, then one row frame per encode_row call in call
\* order, then the trailer FF FF; while the encoder is open the bytes returned
\* so far followed by the bytes still buffered are the header and the frames so
\* far, so a flush drops, duplicates and reorders nothing.
ThmC1_StreamIsHeaderFramesTrailer ==
    LET header19 == <<80, 71, 67, 79, 80, 89, 10, 255, 13, 10, 0,
                      0, 0, 0, 0, 0, 0, 0, 0>>
    IN /\ st = "Open" => Stream = header19 \o Concat(frames)
       /\ st = "Finished" =>
            /\ out_buf = <<>>
            /\ emitted = header19 \o Concat(frames) \o Trailer

\* Two rows were encoded, a flush came between them and finish returned the
\* rest of the stream.
WitC1_FlushedBetweenRows ==
    /\ st = "Finished"
    /\ Len(frames) = 2
    /\ Len(ret) = Len(frames[2]) + 2
    /\ Len(emitted) > Len(ret)

\* The frame the claims C2 and C3 speak of: the bytes of the logical stream
\* that the last encode_row call appended.
LastFrame == SubSeq(Stream, last.from + 1, last.to)

\* The bytes of column k within the last frame.
LastField(k) ==
    SubSeq(Stream,
           (IF k = 1 THEN last.from + 2 ELSE last.marks[k - 1]) + 1,
           last.marks[k])

\* The field the binary COPY format prescribes for a datum: FF FF FF FF for
\* NULL, else the payload's length as 4 big-endian bytes and the payload.
WireField(datum) ==
    IF datum = "NULL"
    THEN <<255, 255, 255, 255>>
    ELSE LET payload == encode_binary(datum)
         IN <<0, 0, 0, Len(payload)>> \o payload

\* C2: encode_row appends the field count as 2 big-endian bytes, then for each
\* column in schema order FF FF FF FF for an absent datum or a 4-byte
\* big-endian length and that many payload bytes for a present one; the row
\* (42, NULL, "x") of a 3-column schema gives 00 03, the field of 42,
\* FF FF FF FF, the field of "x".
CexC2_FrameHasLengthAndPayload ==
    (st \in {"Open", "Finished"} /\ frames # <<>>) =>
        LastFrame = <<field_count \div 256, field_count % 256>>
                    \o Concat([k \in 1..Len(last.row) |-> WireField(last.row[k])])

\* C3: for an absent datum encode_row appends exactly FF FF FF FF and no
\* payload byte, whatever the column's type, its position in the row and the
\* contents of the scratch buffer: the bytes written for every NULL column of
\* the last row are FF FF FF FF, and the frame ends with its last column.
ThmC3_NullIsFourFF ==
    frames # <<>> =>
        /\ \A k \in 1..Len(last.marks) :
               last.row[k] = "NULL" => LastField(k) = <<255, 255, 255, 255>>
        /\ st # "Panicked" => Len(last.marks) = Len(last.row)
        /\ last.to = (IF last.marks = <<>> THEN last.from + 2
                      ELSE last.marks[Len(last.marks)])

\* A NULL was encoded in the second row, in a text column, while the scratch
\* buffer still held the payload of the first row.
WitC3_NullAfterPayload ==
    /\ st = "Open"
    /\ Len(frames) = 2
    /\ field_types = <<"text">>
    /\ last.row = <<"NULL">>
    /\ scratch_buf = <<120>>

\* C4: finish appends exactly FF FF after what accumulated since the last
\* flush and returns that buffer; it moves the encoder from Open to Finished,
\* where no call can occur; so a complete stream holds one trailer, as its last
\* two bytes, also when no row was encoded.
ThmC4_FinishAppendsTrailerOnce ==
    /\ [](st = "Finished" =>
            /\ finishes = 1
            /\ Len(emitted) >= 2
            /\ SubSeq(emitted, Len(emitted) - 1, Len(emitted)) = Trailer)
    /\ [](st # "Finished" => finishes = 0)
    /\ [][/\ finishes' # finishes =>
                /\ st = "Open" /\ st' = "Finished"
                /\ ret' = out_buf \o Trailer
                /\ emitted' = emitted \o ret'
          /\ st = "Finished" => UNCHANGED vars]_vars

\* finish returned only the trailer: no row was encoded and the header had been
\* flushed.
WitC4_TrailerAlone ==
    /\ st = "Finished"
    /\ frames = <<>>
    /\ ret = Trailer

\* C5: new succeeds exactly when the arity is at most 32767 and then stores the
\* arity as field count; otherwise it returns the error labelled "field count"
\* and no encoder exists.  No other call returns an error, and encode_row of a
\* row of the schema's arity does not panic.
ThmC5_NewFailsOnlyOnArityOverflow ==
    /\ st # "Unbuilt" =>
         /\ st # "Failed" <=> Len(desc) <= 32767
         /\ st # "Failed" => field_count = Len(desc) /\ field_types = desc
         /\ st = "Failed" =>
              /\ err = "field count does not fit into an i16"
              /\ out_buf = <<>> /\ emitted = <<>> /\ frames = <<>>
    /\ err # None => st = "Failed"
    /\ st = "Panicked" => Len(last.row) # Len(field_types)

\* new refused a schema of 40000 columns.
WitC5_FortyThousandColumns ==
    /\ st = "Failed"
    /\ Len(desc) = 40000

\* C6: a row whose number of datums differs from the arity is answered with an
\* ArityError value: encode_row does not panic, and leaves in the output no
\* frame whose field count disagrees with the fields that follow it.
CexC6_ArityMismatchIsReturned ==
    (frames # <<>> /\ Len(last.row) # Len(field_types)) =>
        /\ st # "Panicked"
        /\ err = "ArityError"
        /\ last.to = last.from
(***************************************************************************)
(* repr/src/strconv.rs: scalar formatters and parsers used by the list     *)
(* codec.  A Result is [ok, val, msg]; an Option is <<>> (None) or <<v>>.  *)
(***************************************************************************)
Ok(v) == [ok |-> TRUE, val |-> v, msg |-> ""]

Err(m) == [ok |-> FALSE, val |-> <<>>, msg |-> m]

\* FormatBuffer::write_char and FormatBuffer::write_str on a String.
write_char(buf, c) == Append(buf, c)

write_str(buf, str) == buf \o str

DigitChars == <<"0", "1", "2", "3", "4", "5", "6", "7", "8", "9">>

RECURSIVE fmt_u(_)
\* The decimal digits of a natural number, most significant first.
fmt_u(n) ==
    IF n < 10 THEN <<DigitChars[n + 1]>>
    ELSE Append(fmt_u(n \div 10), DigitChars[(n % 10) + 1])

\* write!(buf, "{}", i) for an i32: a '-' for a negative number, then digits.
\* The last digit is split off first so that the smallest i32 is not negated.
display_i32(i) ==
    IF i >= 0 THEN fmt_u(i)
    ELSE LET ld == (10 - (i % 10)) % 10
             q  == -((i + ld) \div 10)
         IN <<"-">> \o (IF q = 0 THEN <<>> ELSE fmt_u(q)) \o <<DigitChars[ld + 1]>>

\* format_int32
format_int32(buf, i) ==
    [buf |-> write_str(buf, display_i32(i)), nestable |-> "Yes"]

\* format_string
format_string(buf, str) ==
    [buf |-> write_str(buf, str), nestable |-> "MayNeedEscaping"]

\* char::is_whitespace on the characters of the model.
WhiteSpace == {" ", "\t", "\n"}

RECURSIVE trim_start(_)
trim_start(str) ==
    IF str # <<>> /\ Head(str) \in WhiteSpace THEN trim_start(Tail(str)) ELSE str

RECURSIVE trim_end(_)
trim_end(str) ==
    IF str # <<>> /\ str[Len(str)] \in WhiteSpace
    THEN trim_end(SubSeq(str, 1, Len(str) - 1))
    ELSE str

\* str::trim
trim(str) == trim_end(trim_start(str))

DigitValue(c) == CHOOSE d \in 0..9 : DigitChars[d + 1] = c

IsDigit(c) == \E d \in 0..9 : DigitChars[d + 1] = c

RECURSIVE parse_digits(_, _, _, _)
\* The digit loop of i32::from_str: checked_mul(10), then checked_add(d) for a
\* positive and checked_sub(d) for a negative number.
parse_digits(str, i, acc, positive) ==
    IF i > Len(str) THEN Ok(acc)
    ELSE IF ~IsDigit(str[i]) THEN Err("invalid digit found in string")
    ELSE LET d == DigitValue(str[i]) IN
         IF positive
         THEN IF acc > 214748364 \/ (acc = 214748364 /\ d > 7)
              THEN Err("number too large to fit in target type")
              ELSE parse_digits(str, i + 1, acc * 10 + d, positive)
         ELSE IF acc < -214748364 \/ (acc = -214748364 /\ d > 8)
              THEN Err("number too small to fit in target type")
              ELSE parse_digits(str, i + 1, acc * 10 - d, positive)

\* i32::from_str
i32_from_str(str) ==
    IF str = <<>> THEN Err("cannot parse integer from empty string")
    ELSE IF str = <<"+">> \/ str = <<"-">> THEN Err("invalid digit found in string")
    ELSE IF str[1] = "+" THEN parse_digits(str, 2, 0, TRUE)
    ELSE IF str[1] = "-" THEN parse_digits(str, 2, 0, FALSE)
    ELSE parse_digits(str, 1, 0, TRUE)

\* parse_int32
parse_int32(str) == i32_from_str(trim(str))

(***************************************************************************)
(* repr/src/strconv.rs: format_list, escape_list_elem, parse_list.         *)
(*                                                                         *)
(* The element formatter and the element parser are passed in by the       *)
(* caller; here they are chosen by an element type ty = [base, depth]:     *)
(* depth 0 is a scalar ("int32" or "string"), depth d > 0 a list whose     *)
(* elements have depth d - 1.  Offsets are 0-based as in the source:       *)
(* elem[k] of the source is buf[k + 1].                                    *)
(***************************************************************************)
\* The byte written by the padding loop of escape_list_elem.
NUL == "\\0"

EscapedChars == {"\"", "\\"}

SpecialChars == {"{", "}", ",", " ", "\"", "\\"}

\* The literal "NULL".
NullText == <<"N", "U", "L", "L">>

CountIn(str, set) == Cardinality({k \in 1..Len(str) : str[k] \in set})

RECURSIVE escape_walk(_, _, _, _)
\* for ri in (start..orig_end).rev(): one iteration at read index ri with
\* write index wi, then the iterations below it.
escape_walk(elem, ri, wi, start) ==
    IF ri < start THEN [elem |-> elem, wi |-> wi]
    ELSE LET e1  == [elem EXCEPT ![wi + 1] = elem[ri + 1]]
             wi1 == wi - 1
         IN IF e1[ri + 1] \in EscapedChars
            THEN escape_walk([e1 EXCEPT ![wi1 + 1] = "\\"], ri - 1, wi1 - 1, start)
            ELSE escape_walk(e1, ri - 1, wi1, start)

\* The buffer a failed assert!(wi == start) leaves the caller with: none, the
\* call panics.
AssertFailed == <<"panic: assertion failed: wi == start">>

\* An escaping step that quotes only elements holding a quote or a backslash.
escape_list_elem_noquote(buf, start) ==
    LET elem == SubSeq(buf, start + 1, Len(buf))
    IN IF CountIn(elem, EscapedChars) = 0
       THEN buf
       ELSE SubSeq(buf, 1, start) \o <<"\"">> \o elem \o <<"\"">>

\* escape_list_elem(buf, start)
escape_list_elem(buf, start) ==
    LET elem == SubSeq(buf, start + 1, Len(buf))
    IN IF /\ elem # <<>>
          /\ elem # NullText
          /\ CountIn(elem, SpecialChars) = 0
       THEN buf
       ELSE LET extras   == 2 + CountIn(elem, EscapedChars)
                orig_end == Len(buf)
                new_end  == Len(buf) + extras
                padded   == buf \o [k \in 1..extras |-> NUL]
                wi0      == new_end - 1
                closed   == [padded EXCEPT ![wi0 + 1] = "\""]
                w        == escape_walk(closed, orig_end - 1, wi0 - 1, start)
                opened   == [w.elem EXCEPT ![w.wi + 1] = "\""]
            IN IF w.wi = start THEN opened ELSE AssertFailed

\* A null written in lower case.
write_null_lower(buf) ==
    [buf |-> write_str(buf, <<"n", "u", "l", "l">>), nestable |-> "Yes"]

\* ListElementWriter::write_null
write_null(buf) == [buf |-> write_str(buf, NullText), nestable |-> "Yes"]

ElemType(ty) == [ty EXCEPT !.depth = @ - 1]

RECURSIVE format_list(_, _, _)
RECURSIVE format_elems(_, _, _, _)
RECURSIVE format_elem(_, _, _)

\* The caller's element formatter: write_null for None, else the formatter of
\* the element type on nonnull_buffer().
format_elem(ty, buf, e) ==
    IF e = <<>> THEN write_null(buf)
    ELSE IF ty.depth > 0 THEN format_list(buf, e[1], ty)
    ELSE IF ty.base = "int32" THEN format_int32(buf, e[1])
    ELSE format_string(buf, e[1])

\* The while loop of format_list, from element i on.
format_elems(buf, elems, i, ty) ==
    IF i > Len(elems) THEN buf
    ELSE LET start == Len(buf)
             r     == format_elem(ty, buf, elems[i])
             b1    == IF r.nestable = "MayNeedEscaping"
                      THEN escape_list_elem(r.buf, start)
                      ELSE r.buf
             b2    == IF i < Len(elems) THEN write_char(b1, ",") ELSE b1
         IN format_elems(b2, elems, i + 1, ty)

\* format_list(buf, elems, format_elem) for elements of type ElemType(ty).
format_list(buf, elems, ty) ==
    LET b0 == write_char(buf, "{")
        b1 == format_elems(b0, elems, 1, ElemType(ty))
    IN [buf |-> write_char(b1, "}"), nestable |-> "Yes"]

RECURSIVE scan_quoted_anyescape(_, _, _)
\* The loop of an escaped elem, were a backslash to escape any character.
scan_quoted_anyescape(s, i, text) ==
    IF i > Len(s) THEN [ok |-> FALSE, msg |-> "unexpected end of input"]
    ELSE IF s[i] = "\"" THEN [ok |-> TRUE, text |-> text, next |-> i + 1]
    ELSE IF s[i] = "\\"
    THEN IF i + 1 > Len(s) THEN [ok |-> FALSE, msg |-> "unexpected end of input"]
         ELSE scan_quoted_anyescape(s, i + 2, Append(text, s[i + 1]))
    ELSE scan_quoted_anyescape(s, i + 1, Append(text, s[i]))

RECURSIVE scan_quoted(_, _, _)
\* The loop of an escaped elem, after its opening quote: [ok, text, next, msg].
scan_quoted(s, i, text) ==
    IF i > Len(s) THEN [ok |-> FALSE, msg |-> "unexpected end of input"]
    ELSE IF s[i] = "\"" THEN [ok |-> TRUE, text |-> text, next |-> i + 1]
    ELSE IF s[i] = "\\"
    THEN IF i + 1 > Len(s) THEN [ok |-> FALSE, msg |-> "unexpected end of input"]
         ELSE IF s[i + 1] \in EscapedChars
         THEN scan_quoted(s, i + 2, Append(text, s[i + 1]))
         ELSE [ok |-> FALSE, msg |-> "bad escape \\" \o s[i + 1]]
    ELSE scan_quoted(s, i + 1, Append(text, s[i]))

RECURSIVE scan_nested(_, _, _)
\* The loop of a nested list: every character up to and including the first '}'.
scan_nested(s, i, text) ==
    IF i > Len(s) THEN [ok |-> FALSE, msg |-> "unexpected end of input"]
    ELSE IF s[i] = "}" THEN [ok |-> TRUE, text |-> Append(text, s[i]), next |-> i + 1]
    ELSE scan_nested(s, i + 1, Append(text, s[i]))

RECURSIVE scan_unquoted(_, _, _)
\* The loop of an unescaped elem: up to, and without, the next '}', ',' or ' '.
scan_unquoted(s, i, text) ==
    IF i > Len(s) THEN [ok |-> FALSE, msg |-> "unexpected end of input"]
    ELSE IF s[i] \in {"}", ",", " "} THEN [ok |-> TRUE, text |-> text, next |-> i]
    ELSE scan_unquoted(s, i + 1, Append(text, s[i]))

RECURSIVE skip_spaces(_, _)
\* while let Some(' ') = chars.peek() { chars.next(); }
skip_spaces(s, i) ==
    IF i <= Len(s) /\ s[i] = " " THEN skip_spaces(s, i + 1) ELSE i

\* make_null()
make_null == <<>>

RECURSIVE parse_list(_, _)
RECURSIVE parse_loop(_, _, _, _)
RECURSIVE parse_elem(_, _)
RECURSIVE parse_delim(_, _, _, _)

\* The caller's element parser, wrapping the parsed value in Some.
parse_elem(ty, text) ==
    LET r == IF ty.depth > 0 THEN parse_list(text, ty)
             ELSE IF ty.base = "int32" THEN parse_int32(text)
             ELSE Ok(text)
    IN IF r.ok THEN Ok(<<r.val>>) ELSE r

\* The element pushed for an unescaped elem, were the text compared untrimmed.
parse_unquoted_exact(ty, text) ==
    IF text = NullText THEN Ok(make_null) ELSE parse_elem(ty, text)

\* The element pushed for an unescaped elem.
parse_unquoted(ty, text) ==
    IF trim(text) = NullText THEN Ok(make_null) ELSE parse_elem(ty, text)

\* After an element, were the delimiter optional.
parse_delim_lenient(s, i, elems, ty) ==
    LET j == skip_spaces(s, i)
    IN IF j > Len(s) THEN Err("unexpected end of input")
       ELSE IF s[j] = "," THEN parse_loop(s, j + 1, elems, ty)
       ELSE IF s[j] = "}" THEN Ok(elems)
       ELSE parse_loop(s, j, elems, ty)

\* After an element: consume whitespace, then look for the delimiter.
parse_delim(s, i, elems, ty) ==
    LET j == skip_spaces(s, i)
    IN IF j > Len(s) THEN Err("unexpected end of input")
       ELSE IF s[j] = "," THEN parse_loop(s, j + 1, elems, ty)
       ELSE IF s[j] = "}" THEN Ok(elems)
       ELSE Err("expected ',' or '}', found '" \o s[j] \o "'")

\* One iteration of the outer loop of parse_list, at the character s[i].
parse_loop(s, i, elems, ty) ==
    IF i > Len(s) THEN Err("unexpected end of input")
    ELSE IF s[i] = "}"
    THEN IF i + 1 <= Len(s)
         THEN Err("unexpected leftover input " \o s[i + 1])
         ELSE Ok(elems)
    ELSE IF s[i] = " " THEN parse_loop(s, i + 1, elems, ty)
    ELSE LET scan == IF s[i] = "\"" THEN scan_quoted(s, i + 1, <<>>)
                     ELSE IF s[i] = "{" THEN scan_nested(s, i, <<>>)
                     ELSE scan_unquoted(s, i, <<>>)
         IN IF ~scan.ok THEN Err(scan.msg)
            ELSE LET e == IF s[i] \in {"\"", "{"}
                          THEN parse_elem(ty, scan.text)
                          ELSE parse_unquoted(ty, scan.text)
                 IN IF ~e.ok THEN e
                    ELSE parse_delim(s, scan.next, Append(elems, e.val), ty)

\* parse_list, were spaces before the opening brace skipped.
parse_list_trimmed(s, ty) ==
    LET i == skip_spaces(s, 1)
    IN IF i > Len(s) THEN Err("unexpected end of input")
       ELSE IF s[i] # "{" THEN Err("expected '{', found " \o s[i])
       ELSE parse_loop(s, i + 1, <<>>, ElemType(ty))

\* parse_list(s, make_null, parse_elem) for elements of type ElemType(ty).
parse_list(s, ty) ==
    IF s = <<>> THEN Err("unexpected end of input")
    ELSE IF s[1] # "{" THEN Err("expected '{', found " \o s[1])
    ELSE parse_loop(s, 2, <<>>, ElemType(ty))

(***************************************************************************)
(* The list codec's callers: a list is formatted into a sink, and what was *)
(* written is parsed back.                                                 *)
(***************************************************************************)
\* The call format_list(sink, linput, ...) on the sink sink0.
FormatList ==
    /\ lpc = "input"
    /\ LET r == format_list(sink0, linput, lty)
       IN /\ lbuf' = r.buf
          /\ lnest' = r.nestable
    /\ lpc' = "formatted"
    /\ UNCHANGED <<lty, linput, ltail, sink0, lres>>
    /\ UNCHANGED <<encVars, scalarVars, auxVars>>

\* What format_list appended to the sink.
Written == SubSeq(lbuf, Len(sink0) + 1, Len(lbuf))

\* The call parse_list(text, make_null, ...) on the text format_list wrote.
ParseList ==
    /\ lpc = "formatted"
    /\ lres' = parse_list(Written, lty)
    /\ lpc' = "parsed"
    /\ UNCHANGED <<lty, linput, ltail, sink0, lbuf, lnest>>
    /\ UNCHANGED <<encVars, scalarVars, auxVars>>

NextList == FormatList \/ ParseList

Some(S) == {<<x>> : x \in S}

SeqsUpTo(S, n) == UNION {[1..k -> S] : k \in 0..n}

\* 32-bit integers: small ones, negative ones, and both ends of the range.
IntPool == {0, 7, -1, 10, -42, 2147483647, -2147483647 - 1}

\* Lists of optional 32-bit integers.
IntLists == SeqsUpTo(Some(IntPool) \cup {<<>>}, MaxListLen)

\* Characters of the strings: a plain one, the ones escape_list_elem looks
\* for, and whitespace other than the space.
Alphabet == {"a", ",", "{", "}", " ", "\"", "\\", "\t"}

RECURSIVE Splits(_, _)
\* The ways to cut the text flat into k consecutive, possibly empty, strings.
Splits(flat, k) ==
    IF k = 1 THEN {<<flat>>}
    ELSE UNION {{<<SubSeq(flat, 1, c)>> \o rest :
                    rest \in Splits(SubSeq(flat, c + 1, Len(flat)), k - 1)} :
                c \in 0..Len(flat)}

\* Lists of strings named by the specification, and strings around "NULL".
NamedStrLists ==
    {<< <<"a", ",", "b">>, <<"c">> >>,
     <<NullText>>,
     <<NullText \o <<"\t">> >>,
     << <<"\n">> \o NullText>>,
     << <<"n", "u", "l", "l">> >>,
     << <<"N", "U", "L", "L", "S">>, <<"x", "}", "y">> >>,
     << <<"{", "a", "}">>, <<"a", " ", "b", "\\", "\"">> >>}

\* Lists of strings: every list of at most MaxListLen strings with at most
\* MaxChars characters in all, and the named ones.
StrLists ==
    LET texts == UNION {Splits(flat, k) :
                           flat \in SeqsUpTo(Alphabet, MaxChars), k \in 1..MaxListLen}
    IN {[i \in 1..Len(l) |-> <<l[i]>>] : l \in texts \cup NamedStrLists \cup {<<>>}}

\* What the sink holds before the call.
Sinks == {<<>>, <<"z", "\"">>}

InitList ==
    /\ EncIdle({<<>>})
    /\ AuxIdle
    /\ ScalarIdle
    /\ ltail = <<>>
    /\ lpc = "input"
    /\ \/ lty = [base |-> "int32", depth |-> 1] /\ linput \in IntLists
       \/ lty = [base |-> "string", depth |-> 1] /\ linput \in StrLists
    /\ sink0 \in Sinks
    /\ lbuf = <<>>
    /\ lnest = None
    /\ lres = None

SpecList == InitList /\ [][NextList]_vars

RECURSIVE NestedLists(_)
\* Lists of depth d with strings at the leaves; every element is present.
NestedLists(d) ==
    IF d = 0 THEN {<<"a">>, <<"}">>}
    ELSE SeqsUpTo(Some(NestedLists(d - 1)), MaxNestLen)

InitNested ==
    /\ EncIdle({<<>>})
    /\ AuxIdle
    /\ ScalarIdle
    /\ ltail = <<>>
    /\ lpc = "input"
    /\ \E d \in 2..MaxDepth :
          /\ lty = [base |-> "string", depth |-> d]
          /\ linput \in NestedLists(d)
    /\ sink0 = <<>>
    /\ lbuf = <<>>
    /\ lnest = None
    /\ lres = None

SpecNested == InitNested /\ [][NextList]_vars

(***************************************************************************)
(* Properties of the list codec, checked under SpecList and SpecNested.    *)
(***************************************************************************)
RECURSIVE JoinComma(_)
\* The texts, with one ',' between consecutive ones.
JoinComma(texts) ==
    IF texts = <<>> THEN <<>>
    ELSE IF Len(texts) = 1 THEN texts[1]
    ELSE texts[1] \o <<",">> \o JoinComma(Tail(texts))

\* The escaping step, stated forwards: a text that is empty, is NULL or holds
\* one of { } , space " \ is put in quotes, with a backslash before each " and
\* each \; any other text is left as it is.
RefEscaped(text) ==
    IF /\ text # <<>>
       /\ text # <<"N", "U", "L", "L">>
       /\ \A k \in 1..Len(text) : text[k] \notin {"{", "}", ",", " ", "\"", "\\"}
    THEN text
    ELSE <<"\"">>
         \o Concat([k \in 1..Len(text) |->
                       IF text[k] \in {"\"", "\\"} THEN <<"\\", text[k]>> ELSE <<text[k]>>])
         \o <<"\"">>

\* The text of one element in the output: what its formatter writes, passed
\* through the escaping step when the formatter returns MayNeedEscaping.
RefElemText(ty, e) ==
    LET r == format_elem(ty, <<>>, e)
    IN IF r.nestable = "MayNeedEscaping" THEN RefEscaped(r.buf) ELSE r.buf

\* C7: format_list appends '{', the texts of the elements in order with exactly
\* one ',' between consecutive ones, then '}'; an element whose formatter
\* returns MayNeedEscaping goes through the escaping step, one whose formatter
\* returns Yes is left as written; the empty list gives {}, the result is
\* Nestable::Yes, and the strings a,b and c give {"a,b",c}.
ThmC7_FormatListLayout ==
    lpc \in {"formatted", "parsed"} =>
        /\ lbuf = sink0 \o <<"{">>
                  \o JoinComma([i \in 1..Len(linput) |->
                                   RefElemText(ElemType(lty), linput[i])])
                  \o <<"}">>
        /\ lnest = "Yes"
        /\ linput = <<>> => Written = <<"{", "}">>
        /\ (lty.base = "string" /\ linput = << <<<<"a", ",", "b">>>>, <<<<"c">>>> >>) =>
               Written = <<"{", "\"", "a", ",", "b", "\"", ",", "c", "}">>

\* The strings a,b and c were formatted into a sink that was not empty.
WitC7_QuotedThenPlain ==
    /\ lpc = "formatted"
    /\ lty.base = "string"
    /\ linput = << <<<<"a", ",", "b">>>>, <<<<"c">>>> >>
    /\ sink0 # <<>>

\* C8: a list of optional 32-bit integers, formatted with write_null and
\* format_int32 and parsed back with make_null and parse_int32, comes back Ok
\* and equal: same length, same integers, nulls at the same positions.
ThmC8_IntListRoundTrip ==
    (lpc = "parsed" /\ lty.base = "int32") =>
        /\ lres.ok
        /\ lres.val = linput

\* A null followed by the smallest 32-bit integer came back.
WitC8_NullAndMinInt ==
    /\ lpc = "parsed"
    /\ lty.base = "int32"
    /\ linput = << <<>>, <<-2147483647 - 1>> >>
    /\ lres.ok

\* C9: a list of text strings over any characters, formatted with
\* format_string and parsed back with the identity parser, comes back exactly:
\* no string becomes a null element, none is changed, split or merged.
CexC9_StringListRoundTrip ==
    (lpc = "parsed" /\ lty.base = "string" /\ lty.depth = 1) =>
        /\ lres.ok
        /\ lres.val = linput

\* C10: nested lists of any depth, formatted by format_list within format_list
\* and parsed back by parse_list within parse_list, come back as they were.
CexC10_NestedListRoundTrip ==
    (lpc = "parsed" /\ lty.depth >= 2) =>
        /\ lres.ok
        /\ lres.val = linput

(***************************************************************************)
(* parse_list on text that no format_list wrote: the caller writes '{',    *)
(* elements separated by single commas, and a tail; or any text at all.    *)
(* The element parser is the identity, so the result shows the texts that  *)
(* were handed to it.                                                      *)
(***************************************************************************)
\* Largest number of characters of a text enumerated in full.
MaxTextLen == 5

\* The call parse_list(text, make_null, ...) on the text the caller supplied.
ParseText ==
    /\ lpc = "text"
    /\ lres' = parse_list(lbuf, lty)
    /\ lpc' = "parsed"
    /\ UNCHANGED <<lty, linput, ltail, sink0, lbuf, lnest>>
    /\ UNCHANGED <<encVars, scalarVars, auxVars>>

\* Texts of elements written without quotes: none is empty, starts with '"'
\* or '{', or holds '}', ',' or ' '.
UnquotedTexts ==
    {<<"1">>, NullText, NullText \o <<"\t">>, <<"\n">> \o NullText,
     <<"n", "u", "l", "l">>, <<"N", "U", "L", "L", "S">>,
     <<"a", "\"", "b">>, <<"a", "\\", "{">>}

\* Texts of elements written in quotes.
QuotedTexts ==
    {<<>>, NullText, <<"a", " ", "b">>, <<",">>, <<"{", "a", "}">>, <<"\"">>,
     <<"\\">>, <<"\\", "\"", "a">>, <<" ">>}

\* Texts put between quotes as they are: plain characters, then a backslash
\* before a character that is neither '\' nor '"'.
BadQuotedTexts ==
    {<<"\\", "n">>, <<"a", "\\", "}", "b">>, <<"\\", " ", "\\", "\\">>,
     <<"a", " ", "\\", ",">>}

\* Texts of elements written as nested lists, closed by their only '}'.
NestedTexts == {<<"{", "}">>, <<"{", "1", ",", "2", "}">>}

ElemItems ==
    [kind : {"unquoted"}, text : UnquotedTexts]
    \cup [kind : {"quoted"}, text : QuotedTexts]
    \cup [kind : {"badquoted"}, text : BadQuotedTexts]
    \cup [kind : {"nested"}, text : NestedTexts]

\* Elements written for a list of integers: numbers, NULL with and without
\* quotes, and a text that is no number.
IntItems ==
    [kind : {"unquoted"}, text : {<<"1">>, <<"3">>, NullText, <<"x">>}]
    \cup [kind : {"quoted"}, text : {NullText, <<" ", "7">>}]

\* The elements of {1,NULL,3}.
NamedIntItems ==
    {<<[kind |-> "unquoted", text |-> <<"1">>],
       [kind |-> "unquoted", text |-> NullText],
       [kind |-> "unquoted", text |-> <<"3">>]>>}

\* What the caller writes for one element.
Rendered(item) ==
    IF item.kind = "quoted"
    THEN <<"\"">>
         \o Concat([k \in 1..Len(item.text) |->
                       IF item.text[k] \in {"\"", "\\"}
                       THEN <<"\\", item.text[k]>> ELSE <<item.text[k]>>])
         \o <<"\"">>
    ELSE IF item.kind = "badquoted" THEN <<"\"">> \o item.text \o <<"\"">>
    ELSE item.text

\* The text the caller composes from the elements and the tail.
Composed(items, tail) ==
    <<"{">> \o JoinComma([i \in 1..Len(items) |-> Rendered(items[i])]) \o tail

\* What the caller writes after the last element.
Tails ==
    {<<>>, <<"}">>, <<" ", "}">>, <<" ", " ", "}">>, <<" ">>,
     <<"}", "x">>, <<"}", "}">>, <<"}", " ">>, <<" ", "}", "x">>,
     <<"x", "}">>, <<" ", "x", "}">>, <<" ", "2", "}">>, <<"b", "}">>,
     <<"\"">>, <<" ", "{", "}">>, <<"\t", "}">>, <<",">>}

InitParse ==
    /\ EncIdle({<<>>})
    /\ AuxIdle
    /\ ScalarIdle
    /\ lpc = "text"
    /\ \/ /\ lty = [base |-> "string", depth |-> 1]
          /\ linput \in SeqsUpTo(ElemItems, MaxListLen)
       \/ /\ lty = [base |-> "int32", depth |-> 1]
          /\ linput \in SeqsUpTo(IntItems, MaxListLen) \cup NamedIntItems
    /\ ltail \in Tails
    /\ sink0 = <<>>
    /\ lbuf = Composed(linput, ltail)
    /\ lnest = None
    /\ lres = None

SpecParse == InitParse /\ [][ParseText]_vars

\* The leading spaces of the tail, and what follows them.
TailSpaces == skip_spaces(ltail, 1) - 1
TailRest == SubSeq(ltail, TailSpaces + 1, Len(ltail))

\* What an element the caller wrote should give: the null constructor's value
\* for an unquoted text that is NULL once trimmed, the element parser's result
\* on the text otherwise.
ExpectedElem(item) ==
    IF item.kind = "unquoted" /\ trim(item.text) = NullText
    THEN Ok(make_null)
    ELSE IF item.kind = "badquoted"
    THEN LET k == CHOOSE k \in 1..Len(item.text) :
                     /\ item.text[k] = "\\"
                     /\ \A j \in 1..(k - 1) : item.text[j] # "\\"
         IN Err("bad escape \\" \o item.text[k + 1])
    ELSE parse_elem(ElemType(lty), item.text)

\* What a well-formed list of elements should give: the first error of an
\* element, or the elements' values in order.
ExpectedList ==
    LET es == [i \in 1..Len(linput) |-> ExpectedElem(linput[i])]
        bad == {i \in 1..Len(linput) : ~es[i].ok}
    IN IF bad # {} THEN es[CHOOSE i \in bad : \A j \in bad : i <= j]
       ELSE Ok([i \in 1..Len(linput) |-> es[i].val])

\* C11: when the caller's elements are followed, after any spaces, by the '}'
\* that closes the list and then by at least one more character, parse_list
\* fails with "unexpected leftover input" naming that character; it never
\* returns Ok while input remains after the closing brace ({}x, {1}x, {1}}).
CexC11_LeftoverAfterClose ==
    (/\ lpc = "parsed"
     /\ Len(TailRest) > 1
     /\ TailRest[1] = "}")
    => lres = Err("unexpected leftover input " \o TailRest[2])

\* Characters of the texts enumerated in full: the ones parse_list looks for
\* and a plain one.
TextChars == {"{", "}", ",", " ", "\"", "\\", "1"}

\* Texts named by the specification, and texts cut off before the list ends.
NamedTexts ==
    {<<"{", "{", "1", ",", "{", "2", "}", "}", ",", "3", "}">>,
     <<"{", "{", "{", "}", "}", "}">>,
     <<"{", "{", "1", "}", ",", "{", "2", "}", "}">>,
     <<"{", "1", ",", "N", "U", "L", "L", ",", "3", "}">>,
     <<"{", "\"", "a", "\"", "b", "}">>,
     <<"{", "\"", "a", "\\", "\"", "\"", ",", "1", "}">>,
     <<"{", "\"", "a", "\\", "\\">>,
     <<"{", "\"", "a", "\\">>,
     <<"{", "1", ",", " ", "{", "2", ",">>,
     <<" ", "{", "1", ",", "1", "}">>,
     <<"x", "{", "}">>}

InitText ==
    /\ EncIdle({<<>>})
    /\ AuxIdle
    /\ ScalarIdle
    /\ lpc = "text"
    /\ lty = [base |-> "string", depth |-> 1]
    /\ linput = <<>>
    /\ ltail = <<>>
    /\ sink0 = <<>>
    /\ lbuf \in SeqsUpTo(TextChars, MaxTextLen) \cup NamedTexts
    /\ lnest = None
    /\ lres = None

SpecText == InitText /\ [][ParseText]_vars

RECURSIVE BalancedEnd(_, _, _)
\* The position of the '}' that matches the '{' at t[i - 1] when depth is 1:
\* braces are counted from t[i] on; 0 when the text ends first.
BalancedEnd(t, i, depth) ==
    IF i > Len(t) THEN 0
    ELSE IF t[i] = "{" THEN BalancedEnd(t, i + 1, depth + 1)
    ELSE IF t[i] = "}"
    THEN IF depth = 1 THEN i ELSE BalancedEnd(t, i + 1, depth - 1)
    ELSE BalancedEnd(t, i + 1, depth)

\* C12: an element that starts with '{' is a nested list whose text is the
\* whole balanced-brace substring, and the element parser receives it
\* verbatim: a text that is '{', one balanced nested list without quotes or
\* backslashes, and '}' gives that nested list as its only element, and
\* {{1,{2}},3} gives the element texts {1,{2}} and 3.
CexC12_NestedTextIsBalanced ==
    lpc = "parsed" =>
        /\ (/\ Len(lbuf) >= 4
            /\ lbuf[1] = "{" /\ lbuf[2] = "{"
            /\ \A k \in 1..Len(lbuf) : lbuf[k] \notin {"\"", "\\"}
            /\ BalancedEnd(lbuf, 3, 1) = Len(lbuf) - 1
            /\ lbuf[Len(lbuf)] = "}")
           => lres = Ok(<< <<SubSeq(lbuf, 2, Len(lbuf) - 1)>> >>)
        /\ lbuf = <<"{", "{", "1", ",", "{", "2", "}", "}", ",", "3", "}">>
           => lres = Ok(<< <<SubSeq(lbuf, 2, 8)>>, << <<"3">> >> >>)

\* C13: in a well-formed list an unquoted element whose trimmed text is NULL
\* becomes the null constructor's value and never reaches the element parser;
\* every other element, a quoted "NULL" included, is the element parser's
\* result on its text; {1,NULL,3} parsed with parse_int32 is [1, null, 3].
ThmC13_NullOnlyUnquoted ==
    (lpc = "parsed" /\ TailRest = <<"}">>) => lres = ExpectedList

WitC13_OneNullThree ==
    /\ lpc = "parsed"
    /\ lty.base = "int32"
    /\ lbuf = <<"{", "1", ",", "N", "U", "L", "L", ",", "3", "}">>
    /\ lres = Ok(<< <<1>>, <<>>, <<3>> >>)

\* The first element written with a bad escape, or 0.
FirstBadQuoted ==
    LET bad == {i \in 1..Len(linput) : linput[i].kind = "badquoted"}
    IN IF bad = {} THEN 0 ELSE CHOOSE i \in bad : \A j \in bad : i <= j

\* C14: inside a quoted element only \\ and \" are escapes, giving one
\* backslash and one quote; a backslash before any other character makes the
\* whole parse fail with "bad escape", whatever follows; otherwise the element
\* parser receives the text between the quotes with the escapes removed, and
\* braces, commas and spaces inside the quotes are ordinary characters.
ThmC14_QuotedEscapes ==
    (lpc = "parsed" /\ lty.base = "string") =>
        /\ FirstBadQuoted # 0 =>
              /\ ~lres.ok
              /\ lres.val = <<>>
              /\ lres.msg = ExpectedElem(linput[FirstBadQuoted]).msg
        /\ (FirstBadQuoted = 0 /\ TailRest = <<"}">>) =>
              /\ lres.ok
              /\ Len(lres.val) = Len(linput)
              /\ \A i \in 1..Len(linput) :
                    linput[i].kind = "quoted" => lres.val[i] = <<linput[i].text>>

WitC14_EscapesAndBraces ==
    /\ lpc = "parsed"
    /\ lbuf = <<"{", "\"", "\\", "\\", "\\", "\"", "a", "\"", ",",
                "\"", "{", "a", "}", "\"", "}">>
    /\ lres = Ok(<< <<<<"\\", "\"", "a">>>>, <<<<"{", "a", "}">>>> >>)

\* C15: after every element (unquoted, quoted or nested) parse_list skips any
\* spaces and then requires ',' or '}'; any other character makes it fail with
\* "expected ',' or '}'" and no element list is returned ({1 2}, {"a"b}). After
\* an unquoted element the other character is one that follows a space, since
\* without the space it is part of the element.
ThmC15_DelimiterRequired ==
    (/\ lpc = "parsed"
     /\ ExpectedList.ok
     /\ Len(linput) > 0
     /\ TailRest # <<>>
     /\ TailRest[1] \notin {",", "}"}
     /\ linput[Len(linput)].kind = "unquoted" => TailSpaces > 0)
    => /\ ~lres.ok
       /\ lres.val = <<>>
       /\ lres.msg = "expected ',' or '}', found '" \o TailRest[1] \o "'"

WitC15_OneSpaceTwo ==
    /\ lpc = "parsed"
    /\ lbuf = <<"{", "1", " ", "2", "}">>
    /\ lres = Err("expected ',' or '}', found '2'")

\* The first n characters of the supplied text.
Prefix(n) == SubSeq(lbuf, 1, n)

\* The outer list is closed within the first n characters.
ClosedWithin(n) == \E k \in 0..n : parse_list(Prefix(k), lty).ok

\* Texts that end inside a list: after the brace, inside and after an unquoted
\* element, after a comma, inside a quoted element, inside an escape, inside
\* a nested list.
CutOffTexts ==
    {<<"{">>, <<"{", "1">>, <<"{", "1", ",">>, <<"{", "1", " ">>,
     <<"{", "\"", "1">>, <<"{", "\"", "1", "\\">>, <<"{", "{", "1">>,
     <<"{", "1", ",", " ", "{", "2", ",">>}

\* C16: parse_list fails unless the very first character is '{' (a leading
\* space is not skipped), and fails with "unexpected end of input" whenever the
\* input ends before the outer list is closed and no earlier error occurred:
\* the empty input, and every beginning of an accepted text that does not yet
\* close the list ({, {1, {1 and a comma or space, an unterminated quoted
\* element, an escape cut off by the end, an unterminated nested list).
ThmC16_StartAndEndOfInput ==
    lpc = "parsed" =>
        /\ lres.ok => lbuf # <<>> /\ lbuf[1] = "{"
        /\ (lbuf # <<>> /\ lbuf[1] # "{") =>
              lres = Err("expected '{', found " \o lbuf[1])
        /\ lbuf = <<>> => lres = Err("unexpected end of input")
        /\ lbuf \in CutOffTexts => lres = Err("unexpected end of input")
        /\ lres.ok =>
              \A n \in 0..(Len(lbuf) - 1) :
                 ~ClosedWithin(n) =>
                     parse_list(Prefix(n), lty) = Err("unexpected end of input")

WitC16_EscapeCutOff ==
    /\ lpc = "parsed"
    /\ lbuf = <<"{", "\"", "1", "\\">>
    /\ lres = Err("unexpected end of input")

(***************************************************************************)
(* The scalar codecs for bytes: parse_bytes, parse_bytes_traditional and   *)
(* format_bytes, with hex::decode and hex::encode.                         *)
(***************************************************************************)
\* The byte of an ASCII character, for the characters the model uses.
as_byte(c) ==
    CASE IsDigit(c) -> 48 + DigitValue(c)
      [] c = "a" -> 97  [] c = "b" -> 98  [] c = "c" -> 99
      [] c = "d" -> 100 [] c = "e" -> 101 [] c = "f" -> 102
      [] c = "h" -> 104 [] c = "l" -> 108 [] c = "o" -> 111
      [] c = "x" -> 120 [] c = "F" -> 70  [] c = "\\" -> 92

\* s.as_bytes()
as_bytes(s) == [k \in 1..Len(s) |-> as_byte(s[k])]

\* The sixteen digits hex::encode writes.
HEX_CHARS_LOWER ==
    <<"0", "1", "2", "3", "4", "5", "6", "7", "8", "9", "a", "b", "c", "d", "e", "f">>

\* hex's val(c): the value of one digit in either case, or -1 for any other
\* character.
hex_val(c) ==
    IF \E k \in 1..16 : HEX_CHARS_LOWER[k] = c
    THEN (CHOOSE k \in 1..16 : HEX_CHARS_LOWER[k] = c) - 1
    ELSE CASE c = "A" -> 10 [] c = "B" -> 11 [] c = "C" -> 12
           [] c = "D" -> 13 [] c = "E" -> 14 [] c = "F" -> 15
           [] OTHER -> -1

\* hex::decode, were a trailing odd digit dropped.
hex_decode_lax(s) ==
    IF \E k \in 1..Len(s) : hex_val(s[k]) < 0 THEN Err("Invalid character")
    ELSE Ok([k \in 1..(Len(s) \div 2) |->
                (hex_val(s[2 * k - 1]) * 16 + hex_val(s[2 * k])) % 256])

\* hex::decode(s)
hex_decode(s) ==
    IF Len(s) % 2 # 0 THEN Err("Odd number of digits")
    ELSE IF \E k \in 1..Len(s) : hex_val(s[k]) < 0 THEN Err("Invalid character")
    ELSE Ok([k \in 1..(Len(s) \div 2) |->
                (hex_val(s[2 * k - 1]) * 16 + hex_val(s[2 * k])) % 256])

\* hex::encode(bytes)
hex_encode(bytes) ==
    Concat([k \in 1..Len(bytes) |->
               <<HEX_CHARS_LOWER[(bytes[k] \div 16) + 1],
                 HEX_CHARS_LOWER[(bytes[k] % 16) + 1]>>])

RECURSIVE parse_bytes_traditional_from(_, _, _)
\* The loop of parse_bytes_traditional, at buf[i], with the bytes pushed so far.
parse_bytes_traditional_from(buf, i, out) ==
    IF i > Len(buf) THEN Ok(out)
    ELSE IF buf[i] # 92 THEN parse_bytes_traditional_from(buf, i + 1, Append(out, buf[i]))
    ELSE IF i + 1 > Len(buf) THEN Err("bytea input ends with escape character")
    ELSE IF buf[i + 1] = 92 THEN parse_bytes_traditional_from(buf, i + 2, Append(out, 92))
    ELSE IF /\ i + 3 <= Len(buf)
            /\ buf[i + 1] \in 48..51
            /\ buf[i + 2] \in 48..55
            /\ buf[i + 3] \in 48..55
    THEN parse_bytes_traditional_from(buf, i + 4,
            Append(out, ((((buf[i + 1] - 48) * 64) % 256)
                         + (((buf[i + 2] - 48) * 8) % 256)
                         + (buf[i + 3] - 48)) % 256))
    ELSE Err("invalid bytea escape sequence")

\* parse_bytes_traditional(buf)
parse_bytes_traditional(buf) == parse_bytes_traditional_from(buf, 1, <<>>)

\* parse_bytes(s)
parse_bytes(s) ==
    IF Len(s) >= 2 /\ s[1] = "\\" /\ s[2] = "x"
    THEN hex_decode(SubSeq(s, 3, Len(s)))
    ELSE parse_bytes_traditional(as_bytes(s))

\* format_bytes(buf, bytes)
format_bytes(buf, bytes) ==
    [buf |-> write_str(buf, <<"\\", "x">> \o hex_encode(bytes)), nestable |-> "Yes"]

(***************************************************************************)
(* The scalar codecs for booleans and for 64-bit integers.  An i64 is its  *)
(* two's complement bits as four 16-bit limbs, most significant first; the *)
(* same four limbs are a u64.                                              *)
(***************************************************************************)
UpperChars ==
    <<"A", "B", "C", "D", "E", "F", "G", "H", "I", "J", "K", "L", "M",
      "N", "O", "P", "Q", "R", "S", "T", "U", "V", "W", "X", "Y", "Z">>

LowerChars ==
    <<"a", "b", "c", "d", "e", "f", "g", "h", "i", "j", "k", "l", "m",
      "n", "o", "p", "q", "r", "s", "t", "u", "v", "w", "x", "y", "z">>

\* str::to_lowercase on the characters of the model.
to_lowercase(str) ==
    [k \in 1..Len(str) |->
        IF \E n \in 1..26 : UpperChars[n] = str[k]
        THEN LowerChars[CHOOSE n \in 1..26 : UpperChars[n] = str[k]]
        ELSE str[k]]

\* The string patterns of the two arms of parse_bool.
TrueLiterals ==
    {<<"t">>, <<"t", "r">>, <<"t", "r", "u">>, <<"t", "r", "u", "e">>,
     <<"y">>, <<"y", "e">>, <<"y", "e", "s">>, <<"o", "n">>, <<"1">>}

FalseLiterals ==
    {<<"f">>, <<"f", "a">>, <<"f", "a", "l">>, <<"f", "a", "l", "s">>,
     <<"f", "a", "l", "s", "e">>, <<"n">>, <<"n", "o">>, <<"o", "f">>,
     <<"o", "f", "f">>, <<"0">>}

\* parse_bool, were the text matched in the case it was written in.
parse_bool_cased(s) ==
    LET v == trim(s)
    IN IF v \in TrueLiterals THEN Ok(TRUE)
       ELSE IF v \in FalseLiterals THEN Ok(FALSE)
       ELSE Err("unable to parse bool")

\* parse_bool, were every non-empty prefix of "on" and "off" accepted.
parse_bool_prefix(s) ==
    LET v == to_lowercase(trim(s))
    IN IF v \in TrueLiterals \cup {<<"o">>} THEN Ok(TRUE)
       ELSE IF v \in FalseLiterals THEN Ok(FALSE)
       ELSE Err("unable to parse bool")

\* parse_bool(s)
parse_bool(s) ==
    LET v == to_lowercase(trim(s))
    IN IF v \in TrueLiterals THEN Ok(TRUE)
       ELSE IF v \in FalseLiterals THEN Ok(FALSE)
       ELSE Err("unable to parse bool")

\* format_bool_static(b)
format_bool_static(b) == IF b THEN <<"t">> ELSE <<"f">>

\* format_bool(buf, b)
format_bool(buf, b) ==
    [buf |-> write_str(buf, format_bool_static(b)), nestable |-> "Yes"]

\* One limb holds 16 bits.
LimbBase == 65536

\* i64 < 0: the sign bit is set.
i64_is_negative(l) == l[1] >= 32768

\* u64::wrapping_neg: every bit inverted, plus one, modulo 2^64.
u64_wrapping_neg(l) ==
    LET n4 == (LimbBase - 1 - l[4]) + 1
        n3 == (LimbBase - 1 - l[3]) + (n4 \div LimbBase)
        n2 == (LimbBase - 1 - l[2]) + (n3 \div LimbBase)
        n1 == (LimbBase - 1 - l[1]) + (n2 \div LimbBase)
    IN <<n1 % LimbBase, n2 % LimbBase, n3 % LimbBase, n4 % LimbBase>>

\* n / 10 and n % 10 for a u64.
u64_divmod10(l) ==
    LET c1 == l[1]
        c2 == (c1 % 10) * LimbBase + l[2]
        c3 == (c2 % 10) * LimbBase + l[3]
        c4 == (c3 % 10) * LimbBase + l[4]
    IN [q |-> <<c1 \div 10, c2 \div 10, c3 \div 10, c4 \div 10>>, r |-> c4 % 10]

RECURSIVE fmt_u64(_)
\* The decimal digits of a u64, most significant first.
fmt_u64(l) ==
    IF l[1] = 0 /\ l[2] = 0 /\ l[3] = 0 /\ l[4] < 10 THEN <<DigitChars[l[4] + 1]>>
    ELSE LET dm == u64_divmod10(l)
         IN Append(fmt_u64(dm.q), DigitChars[dm.r + 1])

\* write!(buf, "{}", i) for an i64: a '-' for a negative number, then the
\* digits of its magnitude, taken as a u64.
display_i64(i) ==
    IF i64_is_negative(i) THEN <<"-">> \o fmt_u64(u64_wrapping_neg(i))
    ELSE fmt_u64(i)

\* format_int64, were the sign left out.
format_int64_unsigned(buf, i) ==
    [buf |-> write_str(buf, fmt_u64(IF i64_is_negative(i) THEN u64_wrapping_neg(i) ELSE i)),
     nestable |-> "Yes"]

\* format_int64
format_int64(buf, i) ==
    [buf |-> write_str(buf, display_i64(i)), nestable |-> "Yes"]

\* n * 10 + d for a u64 n: the low 64 bits, and what was carried out of them.
u64_mul10_add(l, d) ==
    LET c4 == l[4] * 10 + d
        c3 == l[3] * 10 + (c4 \div LimbBase)
        c2 == l[2] * 10 + (c3 \div LimbBase)
        c1 == l[1] * 10 + (c2 \div LimbBase)
    IN [limbs |-> <<c1 % LimbBase, c2 % LimbBase, c3 % LimbBase, c4 % LimbBase>>,
        carry |-> c1 \div LimbBase]

RECURSIVE parse_digits64(_, _, _, _)
\* The digit loop of i64::from_str: checked_mul(10), then checked_add(d) for a
\* positive and checked_sub(d) for a negative number.  acc is the magnitude of
\* the number so far; the checks fail exactly when the magnitude leaves the
\* range of the sign.
parse_digits64(str, i, acc, positive) ==
    IF i > Len(str) THEN Ok(IF positive THEN acc ELSE u64_wrapping_neg(acc))
    ELSE IF ~IsDigit(str[i]) THEN Err("invalid digit found in string")
    ELSE LET n == u64_mul10_add(acc, DigitValue(str[i])) IN
         IF positive
         THEN IF n.carry > 0 \/ n.limbs[1] >= 32768
              THEN Err("number too large to fit in target type")
              ELSE parse_digits64(str, i + 1, n.limbs, positive)
         ELSE IF n.carry > 0 \/ (n.limbs[1] >= 32768 /\ n.limbs # <<32768, 0, 0, 0>>)
              THEN Err("number too small to fit in target type")
              ELSE parse_digits64(str, i + 1, n.limbs, positive)

\* i64::from_str
i64_from_str(str) ==
    IF str = <<>> THEN Err("cannot parse integer from empty string")
    ELSE IF str = <<"+">> \/ str = <<"-">> THEN Err("invalid digit found in string")
    ELSE IF str[1] = "+" THEN parse_digits64(str, 2, <<0, 0, 0, 0>>, TRUE)
    ELSE IF str[1] = "-" THEN parse_digits64(str, 2, <<0, 0, 0, 0>>, FALSE)
    ELSE parse_digits64(str, 1, <<0, 0, 0, 0>>, TRUE)

\* parse_int64
parse_int64(str) == i64_from_str(trim(str))

(***************************************************************************)
(* The scalar codecs' callers: a value is formatted into an empty buffer   *)
(* and the text is parsed back, or a text the caller supplies is parsed.   *)
(***************************************************************************)
\* Largest number of characters of a bytea text enumerated in full.
MaxByteTextLen == 4
\* Largest number of bytes of a byte string.
MaxBytesLen == 3
\* Largest number of characters of a boolean text enumerated in full.
MaxBoolTextLen == 3

\* format_<fn>(buf, v) on an empty buffer: what the buffer holds afterwards.
format_scalar(fn, v) ==
    CASE fn = "bool" -> format_bool(<<>>, v).buf
      [] fn = "int32" -> format_int32(<<>>, v).buf
      [] fn = "int64" -> format_int64(<<>>, v).buf
      [] fn = "bytes" -> format_bytes(<<>>, v).buf

\* parse_<fn>(text)
parse_scalar(fn, text) ==
    CASE fn = "bool" -> parse_bool(text)
      [] fn = "int32" -> parse_int32(text)
      [] fn = "int64" -> parse_int64(text)
      [] fn = "bytes" -> parse_bytes(text)

\* The call of the formatter on the value.
FormatScalar ==
    /\ spc = "value"
    /\ stext' = format_scalar(sfn, sval[1])
    /\ spc' = "text"
    /\ UNCHANGED <<sfn, sval, sres>>
    /\ UNCHANGED <<encVars, listVars, auxVars>>

\* The call of the parser on the text.
ParseScalar ==
    /\ spc = "text"
    /\ sres' = parse_scalar(sfn, stext)
    /\ spc' = "parsed"
    /\ UNCHANGED <<sfn, sval, stext>>
    /\ UNCHANGED <<encVars, listVars, auxVars>>

NextScalar == FormatScalar \/ ParseScalar

\* Limbs of the 64-bit integers: the ends of a limb's range and of its
\* signed range, and small ones.
LimbPool == {0, 1, 9, 32767, 32768, 65535}

\* Named 64-bit integers: 10^18 and -(10^18), and 1234567890123456789.
NamedInt64s ==
    {<<3552, 46771, 42852, 0>>, <<61983, 18764, 22684, 0>>,
     <<4375, 4340, 60319, 33045>>}

\* Bytes of the byte strings: NUL, a newline, a letter, the backslash, 255.
BytePool == {0, 10, 104, 92, 255}

\* 32-bit integers around zero, besides the ones of IntPool.
SmallInts == -12..12

\* The values handed to the formatters, each with its type.
ScalarValues ==
    ({"bool"} \X BOOLEAN)
    \cup ({"int32"} \X (IntPool \cup SmallInts))
    \cup ({"int64"} \X ([1..4 -> LimbPool] \cup NamedInt64s))
    \cup ({"bytes"} \X SeqsUpTo(BytePool, MaxBytesLen))

\* Characters of the bytea texts: the backslash, x, octal digits of each
\* range, digits that are only decimal or only hex, in both cases.
ByteTextChars == {"\\", "x", "0", "3", "4", "7", "8", "a", "F"}

\* Bytea texts named by the specification: \x68656c6c6f, hel\154o, bad\9,
\* and longer ones around the escapes.
NamedByteTexts ==
    {<<"\\", "x", "6", "8", "6", "5", "6", "c", "6", "c", "6", "f">>,
     <<"h", "e", "l", "\\", "1", "5", "4", "o">>,
     <<"b", "a", "d", "\\", "9">>,
     <<"a", "\\", "3", "7", "7", "\\", "\\", "x">>,
     <<"\\", "0", "0", "0", "\\", "1", "0">>,
     <<"\\", "x", "F", "f", "0", "0", "a">>}

ByteTexts == SeqsUpTo(ByteTextChars, MaxByteTextLen) \cup NamedByteTexts

\* str::to_uppercase on the characters of the model.
to_uppercase(str) ==
    [k \in 1..Len(str) |->
        IF \E n \in 1..26 : LowerChars[n] = str[k]
        THEN UpperChars[CHOOSE n \in 1..26 : LowerChars[n] = str[k]]
        ELSE str[k]]

\* Characters of the boolean texts enumerated in full.
BoolTextChars == {"t", "o", "f", "n", "y", "1", "0", "T", "O", " ", "\t"}

\* Words near the accepted ones.
BoolWords ==
    TrueLiterals \cup FalseLiterals
    \cup {<<"t", "r", "u", "e", "e">>, <<"t", "r", " ", "u">>, <<"y", "e", "s", "s">>,
          <<"f", "a", "l", "s", "e", "s">>, <<"o", "f", "f", "f">>, <<"2">>,
          <<"n", "o", "p", "e">>, <<"o">>, <<>>}

\* Boolean texts: every short one, and the words in lower case, in upper case,
\* capitalised, and between whitespace.
BoolTexts ==
    SeqsUpTo(BoolTextChars, MaxBoolTextLen)
    \cup UNION {{w, to_uppercase(w),
                 IF w = <<>> THEN w
                 ELSE to_uppercase(<<w[1]>>) \o SubSeq(w, 2, Len(w)),
                 <<" ">> \o w \o <<" ">>,
                 <<"\t", " ">> \o to_uppercase(w) \o <<"\n">>} : w \in BoolWords}

InitScalar ==
    /\ EncIdle({<<>>})
    /\ AuxIdle
    /\ ListIdle
    /\ sres = None
    /\ \/ /\ spc = "value"
          /\ \E fv \in ScalarValues : sfn = fv[1] /\ sval = <<fv[2]>>
          /\ stext = <<>>
       \/ /\ spc = "text"
          /\ sval = <<>>
          /\ \/ sfn = "bytes" /\ stext \in ByteTexts
             \/ sfn = "bool" /\ stext \in BoolTexts

SpecScalar == InitScalar /\ [][NextScalar]_vars

(***************************************************************************)
(* Properties of the scalar codecs, checked under SpecScalar.              *)
(***************************************************************************)
\* The value of a hex digit, in either case.
RefHexValue ==
    ("0" :> 0) @@ ("1" :> 1) @@ ("2" :> 2) @@ ("3" :> 3) @@ ("4" :> 4)
    @@ ("5" :> 5) @@ ("6" :> 6) @@ ("7" :> 7) @@ ("8" :> 8) @@ ("9" :> 9)
    @@ ("a" :> 10) @@ ("b" :> 11) @@ ("c" :> 12) @@ ("d" :> 13) @@ ("e" :> 14)
    @@ ("f" :> 15) @@ ("A" :> 10) @@ ("B" :> 11) @@ ("C" :> 12) @@ ("D" :> 13)
    @@ ("E" :> 14) @@ ("F" :> 15)

\* The reference for the text after \x: pairs of hex digits, strictly.
RefHex(rest) ==
    IF Len(rest) % 2 = 0 /\ \A k \in 1..Len(rest) : rest[k] \in DOMAIN RefHexValue
    THEN [ok |-> TRUE,
          val |-> [k \in 1..(Len(rest) \div 2) |->
                      16 * RefHexValue[rest[2 * k - 1]] + RefHexValue[rest[2 * k]]]]
    ELSE [ok |-> FALSE, val |-> <<>>]

\* One more byte in front of the rest, unless the rest is an error.
RefCons(b, r) == IF r.ok THEN [ok |-> TRUE, val |-> <<b>> \o r.val] ELSE r

RECURSIVE RefTraditional(_)
\* The reference for the traditional form: a character other than a backslash
\* is its byte, \\ is one backslash, \d2d1d0 with d2 in 0..3 and d1, d0 in 0..7
\* is the byte 64*d2 + 8*d1 + d0, and anything else after a backslash, the end
\* of the text included, is an error.
RefTraditional(s) ==
    IF s = <<>> THEN [ok |-> TRUE, val |-> <<>>]
    ELSE IF s[1] # "\\" THEN RefCons(as_byte(s[1]), RefTraditional(Tail(s)))
    ELSE IF Len(s) >= 2 /\ s[2] = "\\"
    THEN RefCons(92, RefTraditional(SubSeq(s, 3, Len(s))))
    ELSE IF /\ Len(s) >= 4
            /\ s[2] \in {"0", "1", "2", "3"}
            /\ s[3] \in {"0", "1", "2", "3", "4", "5", "6", "7"}
            /\ s[4] \in {"0", "1", "2", "3", "4", "5", "6", "7"}
    THEN RefCons(64 * RefHexValue[s[2]] + 8 * RefHexValue[s[3]] + RefHexValue[s[4]],
                 RefTraditional(SubSeq(s, 5, Len(s))))
    ELSE [ok |-> FALSE, val |-> <<>>]

\* The reference for parse_bytes.
RefParseBytes(s) ==
    IF Len(s) >= 2 /\ SubSeq(s, 1, 2) = <<"\\", "x">>
    THEN RefHex(SubSeq(s, 3, Len(s)))
    ELSE RefTraditional(s)

\* C17: parse_bytes agrees with the reference on every input: after \x the
\* rest is strictly hex-decoded (odd length or a non-hex character is an
\* error, an empty rest gives no bytes); otherwise bytes are copied, \\ gives
\* one backslash, \d2d1d0 gives 64*d2 + 8*d1 + d0, which lies in 0..255, and
\* any other or cut-off escape is an error; \x68656c6c6f and hel\154o give
\* the bytes of hello and bad\9 fails.
ThmC17_ParseBytesReference ==
    (spc = "parsed" /\ sfn = "bytes") =>
        LET ref == RefParseBytes(stext)
        IN /\ sres.ok = ref.ok
           /\ sres.val = ref.val
           /\ \A k \in 1..Len(ref.val) : ref.val[k] \in 0..255
           /\ stext \in {<<"\\", "x", "6", "8", "6", "5", "6", "c", "6", "c", "6", "f">>,
                         <<"h", "e", "l", "\\", "1", "5", "4", "o">>}
                 => sres = Ok(<<104, 101, 108, 108, 111>>)
           /\ stext = <<"b", "a", "d", "\\", "9">> => ~sres.ok

WitC17_OctalEscapeInHello ==
    /\ spc = "parsed"
    /\ stext = <<"h", "e", "l", "\\", "1", "5", "4", "o">>
    /\ sres = Ok(<<104, 101, 108, 108, 111>>)

\* C18: for every boolean b, 32-bit integer i, 64-bit integer j and byte
\* string bs (the empty one and ones holding the backslash byte included),
\* parse_bool(format_bool(b)) = b, parse_int32(format_int32(i)) = i,
\* parse_int64(format_int64(j)) = j and parse_bytes(format_bytes(bs)) = bs.
ThmC18_ScalarRoundTrip ==
    (spc = "parsed" /\ sval # <<>>) => sres = Ok(sval[1])

WitC18_SmallestInt64 ==
    /\ spc = "parsed"
    /\ sfn = "int64"
    /\ sval = << <<32768, 0, 0, 0>> >>
    /\ stext = <<"-", "9", "2", "2", "3", "3", "7", "2", "0", "3", "6", "8", "5",
                 "4", "7", "7", "5", "8", "0", "8">>
    /\ sres = Ok(<<32768, 0, 0, 0>>)

\* The text without its leading and trailing whitespace.
Stripped(s) ==
    LET inner == {k \in 1..Len(s) : s[k] \notin WhiteSpace}
    IN IF inner = {} THEN <<>>
       ELSE SubSeq(s, CHOOSE k \in inner : \A j \in inner : k <= j,
                      CHOOSE k \in inner : \A j \in inner : j <= k)

\* The two texts are equal up to the case of their letters.
SameIgnoringCase(a, b) ==
    /\ Len(a) = Len(b)
    /\ \A k \in 1..Len(a) :
          \/ a[k] = b[k]
          \/ \E n \in 1..26 : {a[k], b[k]} = {UpperChars[n], LowerChars[n]}

\* The fixed table: t, tr, tru, true, y, ye, yes, on, 1 for true and
\* f, fa, fal, fals, false, n, no, of, off, 0 for false.
TableTrue ==
    {<<"t">>, <<"t", "r">>, <<"t", "r", "u">>, <<"t", "r", "u", "e">>, <<"y">>,
     <<"y", "e">>, <<"y", "e", "s">>, <<"o", "n">>, <<"1">>}

TableFalse ==
    {<<"f">>, <<"f", "a">>, <<"f", "a", "l">>, <<"f", "a", "l", "s">>,
     <<"f", "a", "l", "s", "e">>, <<"n">>, <<"n", "o">>, <<"o", "f">>,
     <<"o", "f", "f">>, <<"0">>}

\* C19: parse_bool, after trimming surrounding whitespace and ignoring letter
\* case, returns true exactly for t, tr, tru, true, y, ye, yes, on, 1, false
\* exactly for f, fa, fal, fals, false, n, no, of, off, 0, and fails for every
\* other input; the prefix "o" and the empty string are rejected.
ThmC19_BoolFixedTable ==
    (spc = "parsed" /\ sfn = "bool") =>
        /\ sres = IF \E w \in TableTrue : SameIgnoringCase(Stripped(stext), w)
                  THEN Ok(TRUE)
                  ELSE IF \E w \in TableFalse : SameIgnoringCase(Stripped(stext), w)
                  THEN Ok(FALSE)
                  ELSE Err("unable to parse bool")
        /\ stext \in {<<"o">>, <<"O">>, <<" ", "o">>, <<>>, <<" ">>} => ~sres.ok

WitC19_UpperOfInWhitespace ==
    /\ spc = "parsed"
    /\ sfn = "bool"
    /\ stext = <<"\t", " ", "O", "F", "\n">>
    /\ sres = Ok(FALSE)

\* C20 as stated: parse_bool("YES") returns an error because the upper-case
\* literal is not in the accepted set, and parse_bool(" on ") returns true.
CexC20_UpperYesIsError ==
    (spc = "parsed" /\ sfn = "bool") =>
        /\ stext = <<"Y", "E", "S">> => ~sres.ok
        /\ stext = <<" ", "o", "n", " ">> => sres = Ok(TRUE)

\* C20: parse_bool("YES") returns true, since the text is put in lower case
\* before it is matched, and parse_bool(" on ") returns true.
ThmC20_UpperYesIsTrue ==
    (spc = "parsed" /\ sfn = "bool") =>
        /\ stext = <<"Y", "E", "S">> => sres = Ok(TRUE)
        /\ stext = <<" ", "o", "n", " ">> => sres = Ok(TRUE)

WitC20_UpperYesParsed ==
    /\ spc = "parsed"
    /\ sfn = "bool"
    /\ stext = <<"Y", "E", "S">>
    /\ sres.ok

(***************************************************************************)
(* The narrowing casts of pgcopy/src/cast.rs, called on their own.         *)
(***************************************************************************)
\* The call cast::i16(cx, v) or cast::i32(cx, v).
NarrowCast ==
    /\ spc = "value"
    /\ sfn \in {"i16", "i32"}
    /\ sres' = IF sfn = "i16" THEN i16(sval[1].cx, sval[1].v)
               ELSE i32(sval[1].cx, sval[1].v)
    /\ spc' = "cast"
    /\ UNCHANGED <<sfn, sval, stext>>
    /\ UNCHANGED <<encVars, listVars, auxVars>>

\* The context labels handed to the casts.
CastLabels == {"field count", "length", ""}

\* Values handed to i16: around zero, around both ends of the i16 range,
\* around the end of the u16 range, and far outside.
I16Inputs ==
    (-3..3) \cup (-32770..-32766) \cup (32765..32770) \cup (65534..65537)
    \cup {-40000, 40000, 2147483647, -2147483647 - 1}

\* Values handed to i32, as four 16-bit limbs of a 64-bit integer.
I32Inputs == [1..4 -> {0, 1, 32767, 32768, 65535}]

InitCast ==
    /\ EncIdle({<<>>})
    /\ AuxIdle
    /\ ListIdle
    /\ spc = "value"
    /\ \/ sfn = "i16" /\ sval \in {<<[cx |-> c, v |-> v]>> : c \in CastLabels, v \in I16Inputs}
       \/ sfn = "i32" /\ sval \in {<<[cx |-> c, v |-> v]>> : c \in CastLabels, v \in I32Inputs}
    /\ stext = <<>>
    /\ sres = None

SpecCast == InitCast /\ [][NarrowCast]_vars

\* The 64-bit pattern of a 32-bit integer: its two's complement bits, with
\* the sign repeated in the upper 32 bits.
SignExtended(n) ==
    IF n >= 0 THEN <<0, 0, n \div 65536, n % 65536>>
    ELSE <<65535, 65535, (n \div 65536) + 65536, n % 65536>>

\* C22: i16(label, v) and i32(label, v) return Ok(v) unchanged exactly when v
\* lies in -32768..32767, resp. -2^31..2^31-1, and otherwise an error whose
\* message is "<label> does not fit into an i16", resp. "... an i32"; a value
\* is never wrapped or truncated, and nothing but the result changes.
ThmC22_NarrowingCasts ==
    spc = "cast" =>
        LET cx == sval[1].cx
            v  == sval[1].v
        IN /\ sfn = "i16" =>
                IF v >= -32768 /\ v <= 32767
                THEN sres.ok /\ sres.val = v
                ELSE ~sres.ok /\ sres.msg = cx \o " does not fit into an i16"
           /\ sfn = "i32" =>
                /\ sres.ok =>
                      /\ sres.val >= -2147483647 - 1 /\ sres.val <= 2147483647
                      /\ SignExtended(sres.val) = v
                /\ ~sres.ok =>
                      /\ sres.msg = cx \o " does not fit into an i32"
                      /\ \/ v[1] \notin {0, 65535}
                         \/ v[2] # v[1]
                         \/ (v[1] = 0) # (v[3] < 32768)
           /\ stext = <<>>

WitC22_TwoToThe31 ==
    /\ spc = "cast"
    /\ sfn = "i32"
    /\ sval[1].v = <<0, 0, 32768, 0>>
    /\ sval[1].cx = "length"
    /\ ~sres.ok
    /\ sres.msg = "length does not fit into an i32"

(***************************************************************************)
(* pgcopy/src/config.rs and config/csv.rs: the CSV configurations are      *)
(* structs with public fields; a caller that has a schema builds one by    *)
(* naming its fields.                                                      *)
(***************************************************************************)
\* b',' and b'"'
DEFAULT_COPY_CSV_DELIMITER == 44
DEFAULT_COPY_CSV_QUOTE == 34

\* Values of CopyCsvCommonConfig: the defaults, and a tab-separated file with
\* a header, NULL written out and a backslash escape.
CommonConfigs ==
    {[delimiter |-> DEFAULT_COPY_CSV_DELIMITER, null |-> <<>>, header |-> FALSE,
      quote |-> DEFAULT_COPY_CSV_QUOTE, escape |-> DEFAULT_COPY_CSV_QUOTE],
     [delimiter |-> 9, null |-> NullText, header |-> TRUE,
      quote |-> DEFAULT_COPY_CSV_QUOTE, escape |-> 92]}

\* Values of a Vec<bool> with one entry for each of up to MaxArity columns.
ForceVectors == SeqsUpTo(BOOLEAN, MaxArity)

\* CopyFromConfig::Csv(CopyCsvFromConfig { common, force_not_null, force_null })
BuildCsvFrom(common, force_not_null, force_null) ==
    /\ copy_config = NoConfig
    /\ copy_config' = [kind |-> "CopyFromConfig::Csv", common |-> common,
                       force_not_null |-> force_not_null, force_null |-> force_null]
    /\ UNCHANGED <<encVars, listVars, scalarVars, dparts, walk, nloop, plist>>

\* CopyToConfig::Csv(CopyCsvToConfig { common, force_quote })
BuildCsvTo(common, force_quote) ==
    /\ copy_config = NoConfig
    /\ copy_config' = [kind |-> "CopyToConfig::Csv", common |-> common,
                       force_quote |-> force_quote]
    /\ UNCHANGED <<encVars, listVars, scalarVars, dparts, walk, nloop, plist>>

NextConfig ==
    \/ \E c \in CommonConfigs, nn \in ForceVectors, n \in ForceVectors :
          BuildCsvFrom(c, nn, n)
    \/ \E c \in CommonConfigs, q \in ForceVectors : BuildCsvTo(c, q)

\* The caller's schema is desc; no encoder is built.
InitConfig ==
    /\ EncIdle(UNION {[1..n -> ColumnTypes] : n \in 0..MaxArity})
    /\ ListIdle
    /\ ScalarIdle
    /\ IdleBut("config")
    /\ copy_config = NoConfig

SpecConfig == InitConfig /\ [][NextConfig]_vars

\* C23: every CSV configuration that exists has override vectors whose length
\* is the schema's arity: force_not_null and force_null for COPY FROM,
\* force_quote for COPY TO; one of another length cannot be constructed.
CexC23_OverrideVectorsMatchArity ==
    /\ copy_config.kind = "CopyFromConfig::Csv" =>
          /\ Len(copy_config.force_not_null) = Len(desc)
          /\ Len(copy_config.force_null) = Len(desc)
    /\ copy_config.kind = "CopyToConfig::Csv" =>
          Len(copy_config.force_quote) = Len(desc)

(***************************************************************************)
(* repr/src/strconv.rs: parse_date, parse_time and parse_timestamp.  The   *)
(* routines of the datetime module they call are not part of this source;  *)
(* what each of them returns for the text is the record o, any combination *)
(* of success and failure.                                                 *)
(***************************************************************************)
RECURSIVE Str(_)
\* The text as one string, as "{}" displays it.
Str(s) == IF s = <<>> THEN "" ELSE s[1] \o Str(Tail(s))

\* ParsedDateTime::build_parsed_datetime_timestamp(&ts_string)
build_parsed_datetime_timestamp(o) == o.build_timestamp

\* ParsedDateTime::build_parsed_datetime_time(&s)
build_parsed_datetime_time(o) == o.build_time

\* pdt.compute_date()
compute_date(o) == o.date

\* pdt.compute_time()
compute_time(o) == o.time

\* datetime::split_timestamp_string(s): whether tz_string is empty.
tz_string_is_empty(o) == o.tz_empty

\* datetime::parse_timezone_offset_second(tz_string)
parse_timezone_offset_second(o) == o.tz

\* parse_timestamp_string(s)
parse_timestamp_string(s, o) ==
    IF s = <<>> THEN Err("Timestamp string is empty!")
    ELSE IF s = <<"e", "p", "o", "c", "h">>
    THEN Ok([date |-> "1970-01-01", time |-> "00:00:00", offset |-> 0])
    ELSE IF ~build_parsed_datetime_timestamp(o).ok THEN build_parsed_datetime_timestamp(o)
    ELSE IF ~compute_date(o).ok THEN compute_date(o)
    ELSE IF ~compute_time(o).ok THEN compute_time(o)
    ELSE IF tz_string_is_empty(o)
    THEN Ok([date |-> compute_date(o).val, time |-> compute_time(o).val, offset |-> 0])
    ELSE IF ~parse_timezone_offset_second(o).ok THEN parse_timezone_offset_second(o)
    ELSE Ok([date |-> compute_date(o).val, time |-> compute_time(o).val,
             offset |-> parse_timezone_offset_second(o).val])

\* parse_date(s)
parse_date(s, o) ==
    LET r == parse_timestamp_string(s, o)
    IN IF r.ok THEN Ok(r.val.date)
       ELSE Err("Invalid DATE '" \o Str(s) \o "': " \o r.msg)

\* parse_time(s)
parse_time(s, o) ==
    IF build_parsed_datetime_time(o).ok THEN compute_time(o)
    ELSE Err("Invalid TIME '" \o Str(s) \o "': " \o build_parsed_datetime_time(o).msg)

\* parse_timestamp(s)
parse_timestamp(s, o) ==
    LET r == parse_timestamp_string(s, o)
    IN IF r.ok THEN Ok([date |-> r.val.date, time |-> r.val.time])
       ELSE Err("Invalid TIMESTAMP '" \o Str(s) \o "': " \o r.msg)

\* The call of parse_date, parse_time or parse_timestamp on the text.
ParseDateTime ==
    /\ spc = "text"
    /\ sfn \in {"date", "time", "timestamp"}
    /\ sres' = CASE sfn = "date" -> parse_date(stext, dparts)
                 [] sfn = "time" -> parse_time(stext, dparts)
                 [] sfn = "timestamp" -> parse_timestamp(stext, dparts)
    /\ spc' = "parsed"
    /\ UNCHANGED <<sfn, sval, stext>>
    /\ UNCHANGED <<encVars, listVars, auxVars>>

\* The causes the datetime routines report, one for each routine.
BuildCause == "have unprocessed tokens"
DateCause == "invalid MONTH"
TimeCause == "invalid HOUR"
ZoneCause == "cannot parse timezone offset"

\* What the datetime routines may return.
DateTimeParts ==
    [kind : {"Parts"},
     build_timestamp : {Ok("pdt"), Err(BuildCause)},
     build_time : {Ok("pdt"), Err(BuildCause)},
     date : {Ok("2020-02-03"), Err(DateCause)},
     time : {Ok("04:05:06"), Err(TimeCause)},
     tz_empty : BOOLEAN,
     tz : {Ok(3600), Err(ZoneCause)}]

\* The texts handed to the parsers: empty, epoch, and bodies.
DateTexts ==
    {<<>>, <<"e", "p", "o", "c", "h">>, <<"2", "5", ":", "0", "0">>,
     <<"1", "-", "2", " ", "3", ":", "4", "+", "9">>}

InitDate ==
    /\ EncIdle({<<>>})
    /\ ListIdle
    /\ IdleBut("date")
    /\ spc = "text"
    /\ sfn \in {"date", "time", "timestamp"}
    /\ sval = <<>>
    /\ stext \in DateTexts
    /\ sres = None
    /\ dparts \in DateTimeParts

SpecDate == InitDate /\ [][ParseDateTime]_vars

\* The name of the type in the messages of the parser.
TypeName == CASE sfn = "date" -> "DATE" [] sfn = "time" -> "TIME"
              [] sfn = "timestamp" -> "TIMESTAMP"

\* C21: every failure of parse_date, parse_time and parse_timestamp carries a
\* message that starts with "Invalid DATE '<input>': ", "Invalid TIME
\* '<input>': " and "Invalid TIMESTAMP '<input>': ", whichever stage fails: the
\* empty input, building the parsed fields, computing the date, computing the
\* time, or parsing the zone offset.
CexC21_FailuresAreTypeQualified ==
    (spc = "parsed" /\ sfn \in {"date", "time", "timestamp"} /\ ~sres.ok) =>
        \E cause \in {"Timestamp string is empty!", BuildCause, DateCause,
                      TimeCause, ZoneCause} :
            sres.msg = "Invalid " \o TypeName \o " '" \o Str(stext) \o "': " \o cause

(***************************************************************************)
(* repr/src/strconv.rs: escape_list_elem and format_list, one statement    *)
(* group at a time.  walk holds the locals: elem is the buffer, start,     *)
(* orig_end, ri and wi are 0-based as in the source, ebuf0 is the buffer   *)
(* as it was when escape_list_elem was entered and buf0 the buffer as it   *)
(* was when the outermost call was entered.  mode "escape" is a call of    *)
(* escape_list_elem alone, mode "list" a call of format_list on optional   *)
(* strings.                                                                *)
(***************************************************************************)
\* The element type of the lists of the "list" mode.
StrElem == [base |-> "string", depth |-> 0]

\* An escaping test that forgets the literal NULL.
needs_escaping_nonull(elem) ==
    ~(elem # <<>> /\ CountIn(elem, SpecialChars) = 0)

\* The negation of the early-return condition of escape_list_elem.
needs_escaping(elem) ==
    ~(/\ elem # <<>>
      /\ elem # NullText
      /\ CountIn(elem, SpecialChars) = 0)

\* One extra byte too few.
extras_short(elem) == 1 + CountIn(elem, EscapedChars)

\* Extra bytes for the quotes only.
extras_quotes(elem) == 2

\* let extras = 2 + elem.iter().filter(|b| matches!(b, b'"' | b'\\')).count()
extras(elem) == 2 + CountIn(elem, EscapedChars)

\* Whether elem[k] is inside the buffer; indexing outside of it panics.
InBounds(elem, k) == k \in 0..(Len(elem) - 1)

\* The call panicked.
Panicked(w) == [w EXCEPT !.pc = "panic"]

\* Where escape_list_elem returns to.
ReturnPc(w) == IF w.mode = "list" THEN "fl_comma" ELSE "done"

\* escape_list_elem up to the for loop: the early return, the padding, the
\* closing quote.
EscapeEnter ==
    /\ walk.kind = "Call"
    /\ walk.pc = "esc_call"
    /\ LET elem == SubSeq(walk.elem, walk.start + 1, Len(walk.elem))
       IN IF ~needs_escaping(elem)
          THEN walk' = [walk EXCEPT !.ebuf0 = walk.elem, !.pc = ReturnPc(walk)]
          ELSE LET orig_end == Len(walk.elem)
                   new_end  == Len(walk.elem) + extras(elem)
                   padded   == walk.elem \o [k \in 1..extras(elem) |-> NUL]
                   wi       == new_end - 1
               IN walk' = IF ~InBounds(padded, wi) THEN Panicked(walk)
                          ELSE [walk EXCEPT
                                   !.ebuf0 = walk.elem,
                                   !.elem = [padded EXCEPT ![wi + 1] = "\""],
                                   !.orig_end = orig_end,
                                   !.wi = wi - 1,
                                   !.ri = orig_end - 1,
                                   !.pc = IF orig_end - 1 >= walk.start
                                          THEN "loop" ELSE "close"]
    /\ UNCHANGED <<encVars, listVars, scalarVars, copy_config, dparts, nloop, plist>>

\* elem[wi] = elem[ri]; wi -= 1;
WalkCopy ==
    /\ walk.kind = "Call"
    /\ walk.pc = "loop"
    /\ walk' = IF ~InBounds(walk.elem, walk.wi) \/ ~InBounds(walk.elem, walk.ri)
               THEN Panicked(walk)
               ELSE [walk EXCEPT
                        !.elem = [@ EXCEPT ![walk.wi + 1] = walk.elem[walk.ri + 1]],
                        !.wi = @ - 1,
                        !.pc = "test"]
    /\ UNCHANGED <<encVars, listVars, scalarVars, copy_config, dparts, nloop, plist>>

\* if let b'\\' | b'"' = elem[ri] { elem[wi] = b'\\'; wi -= 1; } and the step
\* of the reversed range.
WalkTest ==
    /\ walk.kind = "Call"
    /\ walk.pc = "test"
    /\ LET next == IF walk.ri - 1 >= walk.start THEN "loop" ELSE "close"
       IN walk' = IF ~InBounds(walk.elem, walk.ri) THEN Panicked(walk)
                  ELSE IF walk.elem[walk.ri + 1] \notin EscapedChars
                  THEN [walk EXCEPT !.ri = @ - 1, !.pc = next]
                  ELSE IF ~InBounds(walk.elem, walk.wi) THEN Panicked(walk)
                  ELSE [walk EXCEPT
                           !.elem = [@ EXCEPT ![walk.wi + 1] = "\\"],
                           !.wi = @ - 1,
                           !.ri = @ - 1,
                           !.pc = next]
    /\ UNCHANGED <<encVars, listVars, scalarVars, copy_config, dparts, nloop, plist>>

\* elem[wi] = b'"'; assert!(wi == start);
WalkClose ==
    /\ walk.kind = "Call"
    /\ walk.pc = "close"
    /\ walk' = IF ~InBounds(walk.elem, walk.wi) THEN Panicked(walk)
               ELSE [walk EXCEPT
                        !.elem = [@ EXCEPT ![walk.wi + 1] = "\""],
                        !.pc = IF walk.wi = walk.start THEN ReturnPc(walk) ELSE "panic"]
    /\ UNCHANGED <<encVars, listVars, scalarVars, copy_config, dparts, nloop, plist>>

\* buf.write_char('{') and the first elems.next() of format_list.
FmtOpen ==
    /\ walk.kind = "Call"
    /\ walk.pc = "fl_open"
    /\ walk' = [walk EXCEPT
                   !.elem = write_char(@, "{"),
                   !.i = 1,
                   !.pc = IF walk.elems = <<>> THEN "fl_close" ELSE "fl_elem"]
    /\ UNCHANGED <<encVars, listVars, scalarVars, copy_config, dparts, nloop, plist>>

\* let start = buf.len(); format_elem(ListElementWriter(buf), elem)
FmtElem ==
    /\ walk.kind = "Call"
    /\ walk.pc = "fl_elem"
    /\ LET r == format_elem(StrElem, walk.elem, walk.elems[walk.i])
       IN walk' = [walk EXCEPT
                      !.start = Len(walk.elem),
                      !.elem = r.buf,
                      !.pc = IF r.nestable = "MayNeedEscaping"
                             THEN "esc_call" ELSE "fl_comma"]
    /\ UNCHANGED <<encVars, listVars, scalarVars, copy_config, dparts, nloop, plist>>

\* if elems.peek().is_some() { buf.write_char(',') } and the next elems.next()
FmtComma ==
    /\ walk.kind = "Call"
    /\ walk.pc = "fl_comma"
    /\ walk' = IF walk.i < Len(walk.elems)
               THEN [walk EXCEPT !.elem = write_char(@, ","), !.i = @ + 1,
                                 !.pc = "fl_elem"]
               ELSE [walk EXCEPT !.pc = "fl_close"]
    /\ UNCHANGED <<encVars, listVars, scalarVars, copy_config, dparts, nloop, plist>>

\* buf.write_char('}'); Nestable::Yes
FmtClose ==
    /\ walk.kind = "Call"
    /\ walk.pc = "fl_close"
    /\ walk' = [walk EXCEPT !.elem = write_char(@, "}"), !.pc = "done"]
    /\ UNCHANGED <<encVars, listVars, scalarVars, copy_config, dparts, nloop, plist>>

NextEscape ==
    \/ EscapeEnter
    \/ WalkCopy
    \/ WalkTest
    \/ WalkClose
    \/ FmtOpen
    \/ FmtElem
    \/ FmtComma
    \/ FmtClose

MaxEscLen == 3
MaxEscList == 2

\* The bytes of the buffers: a plain one, the two escaped ones, a special one.
EscChars == {"a", "\"", "\\", " "}

\* Buffers with a name: the literal NULL alone, after a byte, and inside
\* longer elements.
NamedEscBufs ==
    {<<"N", "U", "L", "L">>, <<",", "N", "U", "L", "L">>,
     <<"N", "U", "L", "L", "a">>, <<"a", "N", "U", "L", "L">>,
     <<"{", "\\", "\"", "\\", "\"">>}

\* The buffers escape_list_elem is called on.
EscBufs == SeqsUpTo(EscChars, MaxEscLen) \cup NamedEscBufs

\* A call of escape_list_elem(buf, start).
EscapeCall(buf, start) ==
    [kind |-> "Call", mode |-> "escape", pc |-> "esc_call", buf0 |-> buf,
     elems |-> <<>>, i |-> 0, elem |-> buf, ebuf0 |-> buf, start |-> start,
     orig_end |-> 0, ri |-> 0, wi |-> 0]

\* A call of format_list(buf, elems, ...).
ListCall(buf, elems) ==
    [kind |-> "Call", mode |-> "list", pc |-> "fl_open", buf0 |-> buf,
     elems |-> elems, i |-> 0, elem |-> buf, ebuf0 |-> buf, start |-> 0,
     orig_end |-> 0, ri |-> 0, wi |-> 0]

\* The strings of the lists: empty, plain, NULL, with a space, with escaped
\* bytes only.
EscElems ==
    {<<>>, <<"a">>, <<"N", "U", "L", "L">>, <<"a", " ", "b">>, <<"\"">>,
     <<"\\", "\"">>}

InitEscape ==
    /\ EncIdle({<<>>})
    /\ ListIdle
    /\ ScalarIdle
    /\ IdleBut("walk")
    /\ \/ \E buf \in EscBufs : \E start \in 0..Len(buf) :
             walk = EscapeCall(buf, start)
       \/ \E buf \in Sinks : \E elems \in SeqsUpTo(Some(EscElems) \cup {<<>>}, MaxEscList) :
             walk = ListCall(buf, elems)

SpecEscape == InitEscape /\ [][NextEscape]_vars

\* The element escape_list_elem was called on.
WalkElem == SubSeq(walk.ebuf0, walk.start + 1, Len(walk.ebuf0))

\* escape_list_elem has returned.
EscapeReturned ==
    \/ walk.mode = "escape" /\ walk.pc = "done"
    \/ walk.mode = "list" /\ walk.pc = "fl_comma" /\ walk.elems[walk.i] # <<>>

\* The statements of escape_list_elem after its early return.
InWalk == walk.pc \in {"loop", "test", "close"}

\* C24: escape_list_elem(buf, start) agrees with its forward reference on the
\* element e = buf[start..]: the buffer is unchanged exactly when e is not
\* empty, is not NULL and holds none of { } , space " \; otherwise buf[start..]
\* becomes a quote, e with one backslash before each " and each \, and a quote,
\* the buffer grows by exactly 2 plus the number of " and \ in e, and no
\* padding byte remains in it.
ThmC24_EscapeMatchesReference ==
    (walk.kind = "Call" /\ EscapeReturned) =>
        LET plain == /\ WalkElem # <<>>
                     /\ WalkElem # <<"N", "U", "L", "L">>
                     /\ \A k \in 1..Len(WalkElem) :
                           WalkElem[k] \notin {"{", "}", ",", " ", "\"", "\\"}
            grown == Cardinality({k \in 1..Len(WalkElem) : WalkElem[k] \in {"\"", "\\"}})
        IN /\ walk.elem = SubSeq(walk.ebuf0, 1, walk.start) \o RefEscaped(WalkElem)
           /\ (walk.elem = walk.ebuf0) <=> plain
           /\ ~plain => Len(walk.elem) = Len(walk.ebuf0) + 2 + grown
           /\ \A k \in 1..Len(walk.elem) : walk.elem[k] # NUL

\* An element of two escaped bytes behind a brace has been escaped.
WitC24_EscapedBehindBrace ==
    /\ walk.kind = "Call"
    /\ EscapeReturned
    /\ walk.ebuf0 = <<"{", "\\", "\"", "\\", "\"">>
    /\ walk.start = 1
    /\ walk.elem = <<"{", "\"", "\\", "\\", "\\", "\"", "\\", "\\", "\\", "\"", "\"">>

\* C25: the final assertion wi == start holds for every buffer, every start
\* (0 included) and every element (empty, or of quotes and backslashes only):
\* the write index never goes below start, and no write is out of bounds.
ThmC25_WriteIndexEndsAtStart ==
    walk.kind = "Call" =>
        /\ walk.pc # "panic"
        /\ InWalk => walk.wi >= walk.start
        /\ walk.pc = "close" => walk.wi = walk.start

\* An element of quotes and backslashes only at start 0 has been escaped.
WitC25_OnlyEscapedAtZero ==
    /\ walk.kind = "Call"
    /\ walk.mode = "escape"
    /\ walk.pc = "done"
    /\ walk.start = 0
    /\ walk.ebuf0 = <<"\"", "\\", "\"">>
    /\ walk.wi = 0

\* C26: during the backward walk the write index is strictly greater than the
\* read index at every step at which a source byte is read, at both reads of
\* elem[ri] of an iteration.
CexC26_WriteStrictlyAboveRead ==
    (walk.kind = "Call" /\ walk.pc \in {"loop", "test"}) => walk.wi > walk.ri

\* C26, amended: the write index is strictly greater than the read index at
\* the first read of elem[ri] and at least the read index at the second, and
\* at both reads every byte at or below the read index holds its original
\* value.
ThmC26_ReadsSeeOriginalBytes ==
    (walk.kind = "Call" /\ walk.pc \in {"loop", "test"}) =>
        /\ walk.pc = "loop" => walk.wi > walk.ri
        /\ walk.pc = "test" => walk.wi >= walk.ri
        /\ \A k \in 0..walk.ri : walk.elem[k + 1] = walk.ebuf0[k + 1]

\* At the second read of a plain byte with nothing to escape below it, the
\* write index is the read index.
WitC26_SecondReadAtWriteIndex ==
    /\ walk.kind = "Call"
    /\ walk.pc = "test"
    /\ walk.ebuf0 = <<"a", " ", "a">>
    /\ walk.start = 0
    /\ walk.ri = 2
    /\ walk.wi = 2

\* C27: escape_list_elem leaves every byte before start unchanged, and
\* format_list leaves every byte that was in the sink before the call
\* unchanged: escaping an element never alters the opening brace, the elements
\* already written or the commas.
ThmC27_BytesBeforeStartKept ==
    walk.kind = "Call" =>
        /\ (InWalk \/ EscapeReturned \/ walk.pc = "panic") =>
              SubSeq(walk.elem, 1, walk.start) = SubSeq(walk.ebuf0, 1, walk.start)
        /\ walk.mode = "list" =>
              /\ Len(walk.elem) >= Len(walk.buf0)
              /\ SubSeq(walk.elem, 1, Len(walk.buf0)) = walk.buf0
        /\ (walk.mode = "list" /\ walk.pc = "done") =>
              walk.elem = format_list(walk.buf0, walk.elems, [base |-> "string", depth |-> 1]).buf

\* The second element of a list has been escaped behind an escaped first one,
\* in a sink that held bytes.
WitC27_SecondElementEscaped ==
    /\ walk.kind = "Call"
    /\ walk.mode = "list"
    /\ walk.pc = "fl_comma"
    /\ walk.i = 2
    /\ walk.buf0 = <<"z", "\"">>
    /\ walk.elems = <<<<<<"a", " ", "b">>>>, <<<<"\\", "\"">>>>>>
    /\ walk.elem = <<"z", "\"", "{", "\"", "a", " ", "b", "\"", ",",
                     "\"", "\\", "\\", "\\", "\"", "\"">>

(***************************************************************************)
(* repr/src/strconv.rs: format_nanos, one loop iteration at a time.  nloop *)
(* holds the locals nanos and width and the buffer; nanos0 and buf0 are    *)
(* the arguments as they were passed.                                      *)
(***************************************************************************)
\* write!(buf, ".{}", nanos): the digits without padding.
write_nanos_unpadded(buf, nanos, width) ==
    write_str(write_char(buf, "."), fmt_u(nanos))

\* write!(buf, ".{:0width$}", nanos, width = width): the digits of nanos,
\* left-padded with zeros to at least width characters.
write_nanos(buf, nanos, width) ==
    LET digits == fmt_u(nanos)
        pad    == IF width > Len(digits) THEN width - Len(digits) ELSE 0
    IN write_str(write_char(buf, "."), [k \in 1..pad |-> "0"] \o digits)

\* if nanos > 0 { let mut width = 9; ...
NanosEnter ==
    /\ nloop.kind = "Call"
    /\ nloop.pc = "call"
    /\ nloop' = IF nloop.nanos > 0
                THEN [nloop EXCEPT !.width = 9, !.pc = "while"]
                ELSE [nloop EXCEPT !.pc = "done"]
    /\ UNCHANGED <<encVars, listVars, scalarVars, copy_config, dparts, walk, plist>>

\* while nanos % 10 == 0 { width -= 1; nanos /= 10; }: one iteration.  A
\* decrement of width below 0 overflows; a nonzero u32 has at most nine
\* trailing zeros, so the loop never gets there.
NanosStrip ==
    /\ nloop.kind = "Call"
    /\ nloop.pc = "while"
    /\ nloop.nanos % 10 = 0
    /\ nloop' = IF nloop.width = 0 THEN [nloop EXCEPT !.pc = "panic"]
                ELSE [nloop EXCEPT !.width = @ - 1, !.nanos = @ \div 10]
    /\ UNCHANGED <<encVars, listVars, scalarVars, copy_config, dparts, walk, plist>>

\* The exit of the while loop and the write!.
NanosWrite ==
    /\ nloop.kind = "Call"
    /\ nloop.pc = "while"
    /\ nloop.nanos % 10 # 0
    /\ nloop' = [nloop EXCEPT !.buf = write_nanos(@, nloop.nanos, nloop.width),
                              !.pc = "done"]
    /\ UNCHANGED <<encVars, listVars, scalarVars, copy_config, dparts, walk, plist>>

NextNanos == NanosEnter \/ NanosStrip \/ NanosWrite

RECURSIVE Pow10(_)
Pow10(k) == IF k = 0 THEN 1 ELSE 10 * Pow10(k - 1)

\* The leading parts of the nanosecond counts.
NanoHeads == {0, 1, 5, 12, 907, 1001, 123456789, 999999999}

InitNanos ==
    /\ EncIdle({<<>>})
    /\ ListIdle
    /\ ScalarIdle
    /\ IdleBut("nanos")
    /\ \E h \in NanoHeads : \E k \in 0..9 : \E buf \in {<<>>, <<"5", "9">>} :
          /\ h <= 2147483647 \div Pow10(k)
          /\ nloop = [kind |-> "Call", pc |-> "call", nanos0 |-> h * Pow10(k),
                      nanos |-> h * Pow10(k), width |-> 0, buf0 |-> buf,
                      buf |-> buf]

SpecNanos == InitNanos /\ [][NextNanos]_vars

\* What format_nanos appended to the buffer.
NanosWritten == SubSeq(nloop.buf, Len(nloop.buf0) + 1, Len(nloop.buf))

\* The number of trailing decimal zeros of a positive n below 10^9.
TrailingZeros(n) == CHOOSE z \in 0..8 : n % Pow10(z) = 0 /\ n % Pow10(z + 1) # 0

RECURSIVE DigitsValue(_)
\* The number a sequence of decimal digits denotes.
DigitsValue(ds) ==
    IF ds = <<>> THEN 0
    ELSE 10 * DigitsValue(SubSeq(ds, 1, Len(ds) - 1)) + DigitValue(ds[Len(ds)])

\* C28: format_nanos writes nothing for 0; for 0 < n < 10^9 it writes '.' and
\* then w digits, 1 <= w <= 9, where w is 9 minus the number of trailing
\* decimal zeros of n and the digits are n / 10^(9 - w) left-padded with zeros
\* to width w, so that the last digit is never 0.  The zero-stripping loop
\* terminates: each iteration keeps nanos positive and lowers width, which
\* stays at least 1.
ThmC28_NanosTrimmedFraction ==
    (nloop.kind = "Call" /\ nloop.nanos0 < 1000000000) =>
        /\ nloop.pc # "panic"
        /\ nloop.pc = "while" =>
              /\ nloop.nanos > 0
              /\ nloop.width \in 1..9
              /\ nloop.nanos * Pow10(9 - nloop.width) = nloop.nanos0
        /\ (nloop.pc = "done" /\ nloop.nanos0 = 0) => nloop.buf = nloop.buf0
        /\ (nloop.pc = "done" /\ nloop.nanos0 > 0) =>
              LET w      == 9 - TrailingZeros(nloop.nanos0)
                  digits == SubSeq(NanosWritten, 2, Len(NanosWritten))
              IN /\ SubSeq(nloop.buf, 1, Len(nloop.buf0)) = nloop.buf0
                 /\ w \in 1..9
                 /\ Len(NanosWritten) = 1 + w
                 /\ NanosWritten[1] = "."
                 /\ \A k \in 1..w : IsDigit(digits[k])
                 /\ DigitsValue(digits) = nloop.nanos0 \div Pow10(9 - w)
                 /\ digits[w] # "0"

\* One nanosecond has been written as ".000000001".
WitC28_OneNanosecond ==
    /\ nloop.kind = "Call"
    /\ nloop.pc = "done"
    /\ nloop.nanos0 = 1
    /\ NanosWritten = <<".", "0", "0", "0", "0", "0", "0", "0", "0", "1">>

\* The text is a list of unquoted elements without nesting: every comma in it
\* is a top-level comma and its only '}' closes the list.
FlatListText ==
    /\ Len(lbuf) >= 2
    /\ lbuf[1] = "{"
    /\ lbuf[Len(lbuf)] = "}"
    /\ \A k \in 2..(Len(lbuf) - 1) : lbuf[k] \in {"1", ",", " "}

\* C30: parse_list requires an element after every comma: whenever it returns
\* Ok for a non-empty list, the number of elements is the number of top-level
\* commas plus one, so that "{1,}" is rejected and not accepted as [1].
CexC30_ElementAfterEveryComma ==
    (lpc = "parsed" /\ FlatListText /\ lres.ok /\ lres.val # <<>>) =>
        Len(lres.val) = CountIn(lbuf, {","}) + 1

(***************************************************************************)
(* repr/src/strconv.rs: parse_list, one loop iteration at a time.  plist   *)
(* holds the locals: buf is the text, pos the number of characters the     *)
(* iterator chars has yielded, top the value of pos at the top of the      *)
(* current iteration of the outer loop, text is elem_text, elems the       *)
(* vector, res the returned Result.                                        *)
(***************************************************************************)
\* chars.peek().copied()
peek(w) == IF w.pos < Len(w.buf) THEN <<w.buf[w.pos + 1]>> ELSE <<>>

\* A chars.next() that leaves the character in the iterator.
next_char_kept(w) == w

\* chars.next() when a character is left: the iterator advances by one.
next_char(w) == [w EXCEPT !.pos = @ + 1]

\* bail!(...) and the ? of parse_elem: parse_list returns the error.
Bail(w, msg) == [w EXCEPT !.pc = "done", !.res = Err(msg)]

\* elems.push(r?) after an element, then on to the whitespace loop.
PushElem(w, r) ==
    IF r.ok THEN [w EXCEPT !.elems = Append(@, r.val), !.pc = "spaces"]
    ELSE Bail(w, r.msg)

\* match chars.next() { Some('{') => (), ... } before the loop.
PlStart ==
    /\ plist.kind = "Call"
    /\ plist.pc = "start"
    /\ plist' = IF peek(plist) = <<>> THEN Bail(plist, "unexpected end of input")
                ELSE IF peek(plist) = <<"{">>
                THEN [next_char(plist) EXCEPT !.pc = "outer"]
                ELSE Bail(next_char(plist), "expected '{', found " \o peek(plist)[1])
    /\ UNCHANGED <<encVars, listVars, scalarVars, copy_config, dparts, walk, nloop>>

\* The top of the outer loop: match chars.peek().copied() up to the inner loop
\* of the arm taken.
PlOuter ==
    /\ plist.kind = "Call"
    /\ plist.pc = "outer"
    /\ LET w == [plist EXCEPT !.top = plist.pos, !.text = <<>>]
           c == peek(w)
       IN plist' =
            IF c = <<>> THEN Bail(w, "unexpected end of input")
            ELSE IF c = <<"}">>
            THEN LET w1 == next_char(w)
                 IN IF peek(w1) = <<>>
                    THEN [w1 EXCEPT !.pc = "done", !.res = Ok(w1.elems)]
                    ELSE Bail(next_char(w1),
                              "unexpected leftover input " \o peek(w1)[1])
            ELSE IF c = <<" ">> THEN next_char(w)
            ELSE IF c = <<"\"">> THEN [next_char(w) EXCEPT !.pc = "quoted"]
            ELSE IF c = <<"{">> THEN [w EXCEPT !.pc = "nested"]
            ELSE [w EXCEPT !.pc = "unquoted"]
    /\ UNCHANGED <<encVars, listVars, scalarVars, copy_config, dparts, walk, nloop>>

\* One iteration of the loop of an escaped elem.
PlQuoted ==
    /\ plist.kind = "Call"
    /\ plist.pc = "quoted"
    /\ LET c  == peek(plist)
           w1 == next_char(plist)
       IN plist' =
            IF c = <<>> THEN Bail(plist, "unexpected end of input")
            ELSE IF c = <<"\"">> THEN PushElem(w1, parse_elem(w1.ty, w1.text))
            ELSE IF c = <<"\\">>
            THEN IF peek(w1) = <<>> THEN Bail(w1, "unexpected end of input")
                 ELSE IF peek(w1)[1] \in {"\\", "\""}
                 THEN [next_char(w1) EXCEPT !.text = Append(@, peek(w1)[1])]
                 ELSE Bail(next_char(w1), "bad escape \\" \o peek(w1)[1])
            ELSE [w1 EXCEPT !.text = Append(@, c[1])]
    /\ UNCHANGED <<encVars, listVars, scalarVars, copy_config, dparts, walk, nloop>>

\* One iteration of the loop of a nested list.
PlNested ==
    /\ plist.kind = "Call"
    /\ plist.pc = "nested"
    /\ LET c  == peek(plist)
           w1 == [next_char(plist) EXCEPT !.text = Append(@, c[1])]
       IN plist' =
            IF c = <<>> THEN Bail(plist, "unexpected end of input")
            ELSE IF c = <<"}">> THEN PushElem(w1, parse_elem(w1.ty, w1.text))
            ELSE w1
    /\ UNCHANGED <<encVars, listVars, scalarVars, copy_config, dparts, walk, nloop>>

\* One iteration of the loop of an unescaped elem.
PlUnquoted ==
    /\ plist.kind = "Call"
    /\ plist.pc = "unquoted"
    /\ LET c == peek(plist)
       IN plist' =
            IF c = <<>> THEN Bail(plist, "unexpected end of input")
            ELSE IF c[1] \in {"}", ",", " "}
            THEN PushElem(plist, parse_unquoted(plist.ty, plist.text))
            ELSE [next_char(plist) EXCEPT !.text = Append(@, c[1])]
    /\ UNCHANGED <<encVars, listVars, scalarVars, copy_config, dparts, walk, nloop>>

\* while let Some(' ') = chars.peek() { chars.next(); }: one iteration.
PlSpaces ==
    /\ plist.kind = "Call"
    /\ plist.pc = "spaces"
    /\ plist' = IF peek(plist) = <<" ">> THEN next_char(plist)
                ELSE [plist EXCEPT !.pc = "delim"]
    /\ UNCHANGED <<encVars, listVars, scalarVars, copy_config, dparts, walk, nloop>>

\* look for delimiter: match chars.next() { ... }
PlDelim ==
    /\ plist.kind = "Call"
    /\ plist.pc = "delim"
    /\ LET c == peek(plist)
       IN plist' =
            IF c = <<>> THEN Bail(plist, "unexpected end of input")
            ELSE IF c = <<",">> THEN [next_char(plist) EXCEPT !.pc = "outer"]
            ELSE IF c = <<"}">>
            THEN [next_char(plist) EXCEPT !.pc = "done", !.res = Ok(plist.elems)]
            ELSE Bail(next_char(plist), "expected ',' or '}', found '" \o c[1] \o "'")
    /\ UNCHANGED <<encVars, listVars, scalarVars, copy_config, dparts, walk, nloop>>

NextPlist ==
    \/ PlStart
    \/ PlOuter
    \/ PlQuoted
    \/ PlNested
    \/ PlUnquoted
    \/ PlSpaces
    \/ PlDelim

MaxPlistLen == 3

\* The characters of the texts: every one parse_list tells apart, and a digit.
PlistChars == {"{", "}", ",", " ", "\"", "\\", "1"}

\* Longer texts: a comma at an element position, quoted and nested elements,
\* spaces around elements, a trailing comma.
NamedPlistTexts ==
    {<<"{", ",", "1", "}">>,
     <<"{", "1", ",", ",", "1", "}">>,
     <<"{", "1", ",", "}">>,
     <<"{", " ", "1", " ", ",", " ", "1", " ", "}">>,
     <<"{", "\"", "1", "\\", "\"", "\"", ",", "1", "}">>,
     <<"{", "{", "1", "}", ",", "{", "1", "}", "}">>,
     <<"{", "\"", "1", "\\", "1", "\"", "}">>}

\* A call of parse_list(s, make_null, parse_elem) for elements of type ty.
PlistCall(s, ty) ==
    [kind |-> "Call", pc |-> "start", buf |-> s, pos |-> 0, top |-> 0,
     ty |-> ty, elems |-> <<>>, text |-> <<>>, res |-> Err("")]

InitPlist ==
    /\ EncIdle({<<>>})
    /\ ListIdle
    /\ ScalarIdle
    /\ IdleBut("plist")
    /\ \E s \in SeqsUpTo(PlistChars, MaxPlistLen) \cup NamedPlistTexts :
       \E base \in {"string", "int32"} :
          plist = PlistCall(s, [base |-> base, depth |-> 0])

\* The loops of parse_list under weak fairness: a call that can take a step
\* takes it.
SpecPlist == InitPlist /\ [][NextPlist]_vars /\ WF_vars(NextPlist)

\* A step that stays in a loop consumes a character: one that repeats an inner
\* loop or the whitespace arm of the outer loop has advanced the iterator, and
\* one that comes back to the top of the outer loop has advanced it since the
\* iteration began.
LoopStepConsumes ==
    /\ (plist'.pc = plist.pc /\ plist.pc # "done") => plist'.pos > plist.pos
    /\ (plist'.pc = "outer" /\ plist.pc = "delim") => plist'.pos > plist.top
    /\ plist'.pos >= plist.pos
    /\ plist'.pos <= Len(plist.buf)

\* C29: parse_list terminates on every finite input: every iteration of the
\* outer loop and of the inner loops consumes at least one character or
\* leaves the loop, also when an element position holds ',' and the unescaped
\* element is empty.
ThmC29_ParseListTerminates ==
    /\ [][LoopStepConsumes]_vars
    /\ <>(plist.kind = "Call" /\ plist.pc = "done")

\* A comma at an element position has been parsed as an empty element, and
\* the call has returned.
WitC29_CommaAtElementPosition ==
    /\ plist.kind = "Call"
    /\ plist.pc = "done"
    /\ plist.buf = <<"{", ",", "1", "}">>
    /\ plist.ty.base = "string"
    /\ plist.res = Ok(<<<<<<>>>>, <<<<"1">>>>>>)

\* The loops return what parse_list returns.
PlistAgrees ==
    (plist.kind = "Call" /\ plist.pc = "done") =>
        plist.res = parse_list(plist.buf, [plist.ty EXCEPT !.depth = 1])
====
